---- MODULE Spec2Model ----
(***************************************************************************)
(* Model of lib/ClusterShell/NodeSet.py: NodeSetBase (mapping from pattern *)
(* template to RangeSet or None and its set algebra), ParsingEngine (the   *)
(* extended pattern scanner) and the NodeSet facade.                       *)
(*                                                                         *)
(* A Python string is a sequence of one-character strings.  A RangeSet     *)
(* (ClusterShell.RangeSet, a set of integers with a padding) is a record   *)
(* [none |-> FALSE, rs |-> set of integers, pad |-> padding, id |-> n];     *)
(* Python's None is the record None below.  id is the identity of the      *)
(* object: 0 for an object no other NodeSet holds, a positive number for   *)
(* an object that is followed from one NodeSet to another; an operation    *)
(* on the RangeSet in place keeps its id, copy() gives id 0.               *)
(* self._patterns is a function whose DOMAIN is the set of keys of the     *)
(* dict.  autostep is None throughout.                                     *)
(***************************************************************************)
EXTENDS Integers, Sequences, FiniteSets, TLC

VARIABLES patterns, err, op, absent, res, arg, pre, resolver

vars == <<patterns, err, op, absent, res, arg, pre, resolver>>

(***************************************************************************)
(* Bounds of the model.                                                    *)
(***************************************************************************)
MaxIdx == 2
MaxBatch == 2
MaxTerms == 3
MaxOperandTerms == 2
MaxGroupTerms == 2

(***************************************************************************)
(* Strings.                                                                *)
(***************************************************************************)
Digits == <<"0", "1", "2", "3", "4", "5", "6", "7", "8", "9">>

DigitChars == {Digits[i] : i \in 1..10}

IsDigit(c) == c \in DigitChars

DigitVal(c) == (CHOOSE i \in 1..10 : Digits[i] = c) - 1

Letters == <<"a", "b", "c", "d", "e", "f", "g", "h", "i", "j", "k", "l", "m",
            "n", "o", "p", "q", "r", "s", "t", "u", "v", "w", "x", "y", "z">>

LetterChars == {Letters[i] : i \in 1..26}

\* ord() of the characters the model uses
Ord(c) ==
  CASE c = " " -> 32 [] c = "!" -> 33 [] c = "%" -> 37 [] c = "&" -> 38
    [] c = "," -> 44 [] c = "-" -> 45 [] c = "/" -> 47
    [] c \in DigitChars -> 48 + DigitVal(c)
    [] c = ":" -> 58 [] c = "@" -> 64 [] c = "[" -> 91 [] c = "]" -> 93
    [] c = "^" -> 94
    [] c \in LetterChars -> 96 + (CHOOSE i \in 1..26 : Letters[i] = c)

\* Python's str < str: lexicographic on ord()
RECURSIVE StrLess(_, _)
StrLess(s, t) ==
  IF t = <<>> THEN FALSE
  ELSE IF s = <<>> THEN TRUE
  ELSE IF Ord(Head(s)) < Ord(Head(t)) THEN TRUE
  ELSE IF Ord(Head(s)) > Ord(Head(t)) THEN FALSE
  ELSE StrLess(Tail(s), Tail(t))

\* str(n) for n >= 0
RECURSIVE IntToStr(_)
IntToStr(n) ==
  IF n < 10 THEN <<Digits[n + 1]>>
  ELSE IntToStr(n \div 10) \o <<Digits[(n % 10) + 1]>>

\* int(s) for a string of digits
RECURSIVE StrToInt(_)
StrToInt(s) ==
  IF s = <<>> THEN 0
  ELSE 10 * StrToInt(SubSeq(s, 1, Len(s) - 1)) + DigitVal(s[Len(s)])

\* "%0*d" % (pad, n)
RECURSIVE ZeroFill(_, _)
ZeroFill(s, pad) == IF Len(s) >= pad THEN s ELSE ZeroFill(<<"0">> \o s, pad)

PadInt(pad, n) == ZeroFill(IntToStr(n), pad)

\* pat % s, Python's string formatting with one argument: "%%" gives "%",
\* "%s" gives the argument
RECURSIVE Format(_, _)
Format(pat, s) ==
  IF pat = <<>> THEN <<>>
  ELSE IF Head(pat) = "%" /\ Len(pat) >= 2 /\ pat[2] = "%"
    THEN <<"%">> \o Format(SubSeq(pat, 3, Len(pat)), s)
  ELSE IF Head(pat) = "%" /\ Len(pat) >= 2 /\ pat[2] = "s"
    THEN s \o Format(SubSeq(pat, 3, Len(pat)), s)
  ELSE <<Head(pat)>> \o Format(Tail(pat), s)

\* sep.join(list)
RECURSIVE Join(_, _)
Join(sep, list) ==
  IF list = <<>> THEN <<>>
  ELSE IF Len(list) = 1 THEN list[1]
  ELSE list[1] \o sep \o Join(sep, Tail(list))

(***************************************************************************)
(* RangeSet (ClusterShell.RangeSet).                                       *)
(***************************************************************************)
None == [none |-> TRUE, rs |-> {}, pad |-> 0, id |-> 0]

RangeSet(members, padding) ==
  [none |-> FALSE, rs |-> members, pad |-> padding, id |-> 0]

\* rangeset.copy(): a new object with the same members and padding
RSCopy(v) == [v EXCEPT !.id = 0]

\* bool(x) for x a RangeSet or None: an empty RangeSet is false
Truthy(v) == ~v.none /\ v.rs # {}

\* len(rangeset)
RSLen(v) == Cardinality(v.rs)

\* rangeset._sorted()
RECURSIVE SortedInts(_)
SortedInts(S) ==
  IF S = {} THEN <<>>
  ELSE LET m == CHOOSE x \in S : \A y \in S : x <= y
       IN <<m>> \o SortedInts(S \ {m})

\* RangeSet.update, updaten: the left operand keeps its padding
RSUpdate(v, w) == [v EXCEPT !.rs = v.rs \cup w.rs]

RSIntersectionUpdate(v, w) == [v EXCEPT !.rs = v.rs \cap w.rs]

RSSymmetricDifferenceUpdate(v, w) ==
  [v EXCEPT !.rs = (v.rs \ w.rs) \cup (w.rs \ v.rs)]

\* RangeSet.difference_update(other, strict): a missing member is an error
\* under strict, raised before the set is changed
RSDifferenceFails(v, w, strict) == strict /\ ~(w.rs \subseteq v.rs)

RSDifferenceUpdate(v, w) == [v EXCEPT !.rs = v.rs \ w.rs]

\* rangeset[i:j] on the ordered members (0-based, step 1)
RSSlice(v, i, j) ==
  LET s == SortedInts(v.rs)
      lo == IF i < 0 THEN 0 ELSE i
      hi == IF j > Len(s) THEN Len(s) ELSE j
  IN RangeSet({s[k] : k \in (lo + 1)..hi}, v.pad)

\* str(rangeset): consecutive runs as a-b, single members alone, all
\* numerals padded, joined with ","
RECURSIVE RunEnd(_, _)
RunEnd(S, a) == IF (a + 1) \in S THEN RunEnd(S, a + 1) ELSE a

RECURSIVE FoldRuns(_, _)
FoldRuns(S, pad) ==
  IF S = {} THEN <<>>
  ELSE LET a == CHOOSE x \in S : \A y \in S : x <= y
           b == RunEnd(S, a)
           tok == IF a = b THEN PadInt(pad, a)
                  ELSE PadInt(pad, a) \o <<"-">> \o PadInt(pad, b)
       IN <<tok>> \o FoldRuns({x \in S : x > b}, pad)

RSStr(v) == Join(<<",">>, FoldRuns(v.rs, v.pad))

(***************************************************************************)
(* NodeSetBase: the _patterns dict.                                        *)
(***************************************************************************)
EmptyDict == [k \in {} |-> None]

\* dict.get(pat): None when the key is missing
Get(p, pat) == IF pat \in DOMAIN p THEN p[pat] ELSE None

HasKey(p, pat) == pat \in DOMAIN p

\* self._patterns[pat] = v
Put(p, pat, v) == [k \in (DOMAIN p) \cup {pat} |-> IF k = pat THEN v ELSE p[k]]

\* del self._patterns[pat]
Del(p, pat) == [k \in (DOMAIN p) \ {pat} |-> p[k]]

\* sorted(self._patterns.iteritems()): the keys in increasing str order
RECURSIVE SortedKeys(_)
SortedKeys(K) ==
  IF K = {} THEN <<>>
  ELSE LET m == CHOOSE x \in K : \A y \in K \ {x} : StrLess(x, y)
       IN <<m>> \o SortedKeys(K \ {m})

\* the keys of dict p in the iteration order of the dict, order being a
\* sequence that enumerates every possible key once
RECURSIVE IterKeys(_, _)
IterKeys(p, order) ==
  IF order = <<>> THEN <<>>
  ELSE (IF Head(order) \in DOMAIN p THEN <<Head(order)>> ELSE <<>>)
       \o IterKeys(p, Tail(order))

\* the orders in which a dict with the keys K can be iterated
Orders(K) ==
  {o \in [1..Cardinality(K) -> K] : \A t \in K : \E i \in DOMAIN o : o[i] = t}

\* one iteration order, for the loops whose result does not depend on it
\* (no step stops the loop or reads what another step wrote)
AnyOrder(K) == SortedKeys(K)

\* __len__
RECURSIVE LenKeys(_, _)
LenKeys(p, K) ==
  IF K = {} THEN 0
  ELSE LET k == CHOOSE x \in K : TRUE
       IN (IF Truthy(p[k]) THEN RSLen(p[k]) ELSE 1) + LenKeys(p, K \ {k})

NSLen(p) == LenKeys(p, DOMAIN p)

\* _add(pat, rangeset); the assert of line 369 is AssertionError
AddFails(p, pat, v) == Truthy(Get(p, pat)) /\ v.none

\* (variant) a new pattern gets the rangeset itself, not a copy of it
AddShared(p, pat, v) ==
  IF Truthy(Get(p, pat)) THEN Put(p, pat, RSUpdate(p[pat], v))
  ELSE IF Truthy(v) THEN Put(p, pat, v)
  ELSE Put(p, pat, None)

Add(p, pat, v) ==
  IF Truthy(Get(p, pat)) THEN Put(p, pat, RSUpdate(p[pat], v))
  ELSE IF Truthy(v) THEN Put(p, pat, RSCopy(v))
  ELSE Put(p, pat, None)

\* NodeSetBase(pattern, rangeset)
NodeSetBase(pat, v) == IF pat # <<>> THEN Add(EmptyDict, pat, v) ELSE EmptyDict

\* NodeSetBase.update: _add of every item of other; an AssertionError of
\* _add leaves the items already added
RECURSIVE UpdateLoop(_, _, _)
UpdateLoop(p, other, keys) ==
  IF keys = <<>> THEN [p |-> p, err |-> "none"]
  ELSE IF AddFails(p, Head(keys), other[Head(keys)])
    THEN [p |-> p, err |-> "AssertionError"]
  ELSE UpdateLoop(Add(p, Head(keys), other[Head(keys)]), other, Tail(keys))

NSUpdate(p, other, order) == UpdateLoop(p, other, IterKeys(other, order))

\* _addn(pat, rangesets)
AllNone(rangesets) == \A i \in 1..Len(rangesets) : rangesets[i].none

RECURSIVE RSUpdaten(_, _)
RSUpdaten(v, rangesets) ==
  IF rangesets = <<>> THEN v
  ELSE RSUpdaten(RSUpdate(v, Head(rangesets)), Tail(rangesets))

AnyNone(rangesets) == \E i \in 1..Len(rangesets) : rangesets[i].none

\* (variant) the first rangeset of the list is stored as it is, not copied
AddnShared(p, pat, rangesets) ==
  LET pat_e == Get(p, pat)
  IN IF pat_e.none
       THEN IF AllNone(rangesets) THEN [p |-> Put(p, pat, None), err |-> "none"]
            ELSE IF rangesets[1].none THEN [p |-> p, err |-> "AttributeError"]
            ELSE IF AnyNone(Tail(rangesets))
              THEN [p |-> Put(p, pat, rangesets[1]), err |-> "TypeError"]
            ELSE [p |-> Put(p, pat, RSUpdaten(rangesets[1], Tail(rangesets))),
                  err |-> "none"]
     ELSE IF AllNone(rangesets) THEN [p |-> p, err |-> "AssertionError"]
     ELSE IF AnyNone(rangesets) THEN [p |-> p, err |-> "TypeError"]
     ELSE [p |-> Put(p, pat, RSUpdaten(pat_e, rangesets)), err |-> "none"]

Addn(p, pat, rangesets) ==
  LET pat_e == Get(p, pat)
  IN IF pat_e.none
       THEN IF AllNone(rangesets) THEN [p |-> Put(p, pat, None), err |-> "none"]
            ELSE IF rangesets[1].none THEN [p |-> p, err |-> "AttributeError"]
            ELSE IF AnyNone(Tail(rangesets))
              THEN [p |-> Put(p, pat, RSCopy(rangesets[1])), err |-> "TypeError"]
            ELSE [p |-> Put(p, pat, RSUpdaten(RSCopy(rangesets[1]),
                                              Tail(rangesets))),
                  err |-> "none"]
     ELSE IF AllNone(rangesets) THEN [p |-> p, err |-> "AssertionError"]
     ELSE IF AnyNone(rangesets) THEN [p |-> p, err |-> "TypeError"]
     ELSE [p |-> Put(p, pat, RSUpdaten(pat_e, rangesets)), err |-> "none"]

\* patd of updaten: for a pattern, the rangesets of the others that have it,
\* in the order of the list
RECURSIVE Patd(_, _)
Patd(others, pat) ==
  IF others = <<>> THEN <<>>
  ELSE (IF pat \in DOMAIN Head(others) THEN <<Head(others)[pat]>> ELSE <<>>)
       \o Patd(Tail(others), pat)

RECURSIVE UpdatenLoop(_, _, _)
UpdatenLoop(p, others, keys) ==
  IF keys = <<>> THEN [p |-> p, err |-> "none"]
  ELSE LET r == Addn(p, Head(keys), Patd(others, Head(keys)))
       IN IF r.err # "none" THEN r ELSE UpdatenLoop(r.p, others, Tail(keys))

NSUpdaten(p, others, order) ==
  LET keys == SelectSeq(order,
                LAMBDA k : \E i \in 1..Len(others) : k \in DOMAIN others[i])
  IN UpdatenLoop(p, others, keys)

\* NodeSetBase.intersection_update: tmp_ns is built from the items of other
\* and substituted for self._patterns
RECURSIVE IntersectionLoop(_, _, _, _)
IntersectionLoop(p, other, keys, tmp) ==
  IF keys = <<>> THEN [p |-> tmp, err |-> "none"]
  ELSE LET pat == Head(keys)
           irangeset == other[pat]
           rangeset == Get(p, pat)
           rs == RSIntersectionUpdate(RSCopy(rangeset), irangeset)
       IN IF Truthy(rangeset) /\ irangeset.none
            THEN [p |-> p, err |-> "TypeError"]
          ELSE IF Truthy(rangeset)
            THEN IF RSLen(rs) > 0
                   THEN IntersectionLoop(p, other, Tail(keys), Add(tmp, pat, rs))
                   ELSE IntersectionLoop(p, other, Tail(keys), tmp)
          ELSE IF ~Truthy(irangeset) /\ HasKey(p, pat)
            THEN IntersectionLoop(p, other, Tail(keys), Add(tmp, pat, None))
          ELSE IntersectionLoop(p, other, Tail(keys), tmp)

\* (variant) the branch of the two nodes with no rangeset is missing
NSIntersectionUpdateNumbered(p, other, order) ==
  LET r == IntersectionLoop(p, other, IterKeys(other, order), EmptyDict)
  IN [r EXCEPT !.p = [k \in {x \in DOMAIN r.p : ~r.p[x].none} |-> r.p[k]]]

NSIntersectionUpdate(p, other, order) ==
  IntersectionLoop(p, other, IterKeys(other, order), EmptyDict)

\* the purge loop: del self._patterns[pat] for each pat of purge_patterns;
\* deleting a key twice is KeyError
RECURSIVE Purge(_, _)
Purge(p, purge) ==
  IF purge = <<>> THEN [p |-> p, err |-> "none"]
  ELSE IF ~HasKey(p, Head(purge)) THEN [p |-> p, err |-> "KeyError"]
  ELSE Purge(Del(p, Head(purge)), Tail(purge))

\* NodeSetBase.difference_update: the loop over the items of other; a
\* KeyError leaves the loop, and the method, before the purge
RECURSIVE DifferenceLoop(_, _, _, _, _)
DifferenceLoop(p, other, strict, keys, purge) ==
  IF keys = <<>> THEN Purge(p, purge)
  ELSE LET pat == Head(keys)
           erangeset == other[pat]
           rangeset == Get(p, pat)
           left == RSDifferenceUpdate(rangeset, erangeset)
       IN IF Truthy(rangeset) /\ erangeset.none
            THEN [p |-> p, err |-> "TypeError"]
          ELSE IF Truthy(rangeset)
            THEN IF RSDifferenceFails(rangeset, erangeset, strict)
                   THEN [p |-> p, err |-> "KeyError"]
                 ELSE DifferenceLoop(Put(p, pat, left), other, strict, Tail(keys),
                        IF RSLen(left) = 0 THEN Append(purge, pat) ELSE purge)
          ELSE IF HasKey(p, pat)
            THEN DifferenceLoop(p, other, strict, Tail(keys), Append(purge, pat))
          ELSE IF strict THEN [p |-> p, err |-> "KeyError"]
          ELSE DifferenceLoop(p, other, strict, Tail(keys), purge)

NSDifferenceUpdate(p, other, strict, order) ==
  DifferenceLoop(p, other, strict, IterKeys(other, order), <<>>)

\* NodeSetBase.symmetric_difference_update: first loop, over our rangesets
RECURSIVE SymDiffOurs(_, _, _, _)
SymDiffOurs(p, other, keys, purge) ==
  IF keys = <<>> THEN [p |-> p, purge |-> purge]
  ELSE LET pat == Head(keys)
           brangeset == Get(other, pat)
       IN IF Truthy(brangeset)
            THEN SymDiffOurs(
                   Put(p, pat, RSSymmetricDifferenceUpdate(p[pat], brangeset)),
                   other, Tail(keys), purge)
          ELSE IF HasKey(other, pat)
            THEN SymDiffOurs(p, other, Tail(keys), Append(purge, pat))
          ELSE SymDiffOurs(p, other, Tail(keys), purge)

\* second loop, over other's rangesets
RECURSIVE SymDiffTheirs(_, _, _)
SymDiffTheirs(p, other, keys) ==
  IF keys = <<>> THEN p
  ELSE LET pat == Head(keys)
       IN IF ~Truthy(Get(p, pat)) /\ ~HasKey(p, pat)
            THEN SymDiffTheirs(Add(p, pat, other[pat]), other, Tail(keys))
          ELSE SymDiffTheirs(p, other, Tail(keys))

\* third loop, the patterns whose rangeset is now empty
SymDiffCleanup(p, keys) ==
  SelectSeq(keys, LAMBDA pat : ~p[pat].none /\ RSLen(p[pat]) = 0)

NSSymmetricDifferenceUpdate(p, other, order) ==
  LET one == SymDiffOurs(p, other, IterKeys(p, order), <<>>)
      two == SymDiffTheirs(one.p, other, IterKeys(other, order))
  IN Purge(two, one.purge \o SymDiffCleanup(two, IterKeys(two, order)))

\* NodeSetBase.remove
NSRemove(p, elem, order) == NSDifferenceUpdate(p, elem, TRUE, order)

\* NodeSetBase.copy: None as it is, a copy of each rangeset
NSCopy(p) == [k \in DOMAIN p |-> IF p[k].none THEN None ELSE RSCopy(p[k])]

\* NodeSetBase.clear
NSClear(p) == EmptyDict

(***************************************************************************)
(* Python string methods used by the parser.                               *)
(***************************************************************************)
\* s.find(c): the 0-based index of the first c, -1 when there is none
RECURSIVE FindFrom(_, _, _)
FindFrom(s, c, i) ==
  IF i > Len(s) THEN -1
  ELSE IF s[i] = c THEN i - 1
  ELSE FindFrom(s, c, i + 1)

Find(s, c) == FindFrom(s, c, 1)

\* s.split(c, 1), for a string that holds c
SplitBefore(s, c) == SubSeq(s, 1, Find(s, c))

SplitAfter(s, c) == SubSeq(s, Find(s, c) + 2, Len(s))

RECURSIVE LStrip(_)
LStrip(s) == IF s # <<>> /\ Head(s) = " " THEN LStrip(Tail(s)) ELSE s

RECURSIVE RStrip(_)
RStrip(s) ==
  IF s # <<>> /\ s[Len(s)] = " " THEN RStrip(SubSeq(s, 1, Len(s) - 1)) ELSE s

Strip(s) == LStrip(RStrip(s))

\* s.replace('%', '%%')
RECURSIVE EscapePercent(_)
EscapePercent(s) ==
  IF s = <<>> THEN <<>>
  ELSE (IF Head(s) = "%" THEN <<"%", "%">> ELSE <<Head(s)>>)
       \o EscapePercent(Tail(s))

\* s.split(c): the pieces between the occurrences of c
RECURSIVE Split(_, _)
Split(s, c) ==
  IF Find(s, c) < 0 THEN <<s>>
  ELSE <<SplitBefore(s, c)>> \o Split(SplitAfter(s, c), c)

AllDigits(s) == s # <<>> /\ \A i \in 1..Len(s) : IsDigit(s[i])

(***************************************************************************)
(* RangeSet(pattern): the parser of a range list.                          *)
(***************************************************************************)
\* the padding a numeral is written with: its length when it has a leading
\* zero, else 0
NumeralPad(s) == IF Len(s) > 1 /\ Head(s) = "0" THEN Len(s) ELSE 0

\* one token: n, a-b or a-b/step
TokenParts(tok) ==
  LET ab == IF Find(tok, "/") < 0 THEN tok ELSE SplitBefore(tok, "/")
  IN [a |-> IF Find(ab, "-") < 0 THEN ab ELSE SplitBefore(ab, "-"),
      b |-> IF Find(ab, "-") < 0 THEN ab ELSE SplitAfter(ab, "-"),
      step |-> IF Find(tok, "/") < 0 THEN <<"1">> ELSE SplitAfter(tok, "/")]

TokenBad(tok) ==
  LET t == TokenParts(tok)
  IN \/ ~AllDigits(t.a) \/ ~AllDigits(t.b) \/ ~AllDigits(t.step)
     \/ StrToInt(t.a) > StrToInt(t.b)
     \/ StrToInt(t.step) = 0

TokenMembers(tok) ==
  LET t == TokenParts(tok)
      a == StrToInt(t.a)
  IN {x \in a..StrToInt(t.b) : (x - a) % StrToInt(t.step) = 0}

RSParseFails(rng) ==
  LET toks == Split(rng, ",") IN \E i \in 1..Len(toks) : TokenBad(toks[i])

RSParse(rng) ==
  LET toks == Split(rng, ",")
  IN RangeSet(UNION {TokenMembers(toks[i]) : i \in 1..Len(toks)},
              NumeralPad(TokenParts(toks[1]).a))

(***************************************************************************)
(* ParsingEngine: the scanner.                                             *)
(***************************************************************************)
OpChars == <<",", "!", "&", "^">>

OpNames == <<"update", "difference_update", "intersection_update",
             "symmetric_difference_update">>

\* ParsingEngine.OP_CODES
OP_CODES(opc) == OpChars[CHOOSE i \in 1..4 : OpNames[i] = opc]

\* _next_op: the index of the first operator character and its opcode
NextOp(pat) ==
  LET found == {i \in 1..4 : Find(pat, OpChars[i]) >= 0}
  IN IF found = {} THEN [idx |-> -1, opc |-> "None"]
     ELSE LET m == CHOOSE i \in found :
                     \A j \in found : Find(pat, OpChars[i]) <= Find(pat, OpChars[j])
          IN [idx |-> Find(pat, OpChars[m]), opc |-> OpNames[m]]

\* single_node_re, (\D*)(\d*)(.*): the groups of the match
RECURSIVE NonDigitsLen(_)
NonDigitsLen(s) ==
  IF s = <<>> \/ IsDigit(Head(s)) THEN 0 ELSE 1 + NonDigitsLen(Tail(s))

RECURSIVE DigitsLen(_)
DigitsLen(s) ==
  IF s = <<>> \/ ~IsDigit(Head(s)) THEN 0 ELSE 1 + DigitsLen(Tail(s))

SingleNodeMatch(node) ==
  LET n == NonDigitsLen(node)
      d == DigitsLen(SubSeq(node, n + 1, Len(node)))
  IN [pfx |-> SubSeq(node, 1, n),
      idx |-> SubSeq(node, n + 1, n + d),
      sfx |-> SubSeq(node, n + d + 1, Len(node))]

\* one round of the loop of _scan_string on a pattern with a bracket before
\* any operator: what it yields, what is left of the pattern and the next
\* opcode
BracketTerm(pat, op_code) ==
  LET pfx == SplitBefore(pat, "[")
      sfx0 == SplitAfter(pat, "[")
      rng == SplitBefore(sfx0, "]")
      sfx1 == SplitAfter(sfx0, "]")
      nx == NextOp(sfx1)
      sfx == RStrip(IF nx.idx < 0 THEN sfx1
                    ELSE SplitBefore(sfx1, OP_CODES(nx.opc)))
  IN IF Find(sfx0, "]") < 0 THEN [err |-> "NodeSetParseError"]
     ELSE IF Len(pfx) + Len(sfx) = 0 THEN [err |-> "NodeSetParseError"]
     ELSE IF RSParseFails(rng) THEN [err |-> "NodeSetParseRangeError"]
     ELSE [err |-> "none",
           event |-> [opc |-> op_code, pat |-> pfx \o <<"%", "s">> \o sfx,
                      rset |-> RSParse(rng)],
           more |-> nx.idx >= 0,
           rest |-> IF nx.idx < 0 THEN <<>>
                    ELSE SplitAfter(sfx1, OP_CODES(nx.opc)),
           next_op_code |-> nx.opc]

\* the same for a single node
NodeTerm(pat, op_code) ==
  LET nx == NextOp(pat)
      node == Strip(IF nx.idx < 0 THEN pat
                    ELSE SplitBefore(pat, OP_CODES(nx.opc)))
      mo == SingleNodeMatch(node)
  IN IF Len(node) = 0 THEN [err |-> "NodeSetParseError"]
     ELSE IF Len(mo.pfx) + Len(mo.sfx) = 0 THEN [err |-> "NodeSetParseError"]
     ELSE IF mo.idx # <<>> /\ RSParseFails(mo.idx)
       THEN [err |-> "NodeSetParseRangeError"]
     ELSE [err |-> "none",
           event |-> IF mo.idx # <<>>
                       THEN [opc |-> op_code,
                             pat |-> mo.pfx \o <<"%", "s">> \o mo.sfx,
                             rset |-> RSParse(mo.idx)]
                     ELSE [opc |-> op_code, pat |-> mo.pfx, rset |-> None],
           more |-> nx.idx >= 0,
           rest |-> IF nx.idx < 0 THEN <<>>
                    ELSE SplitAfter(pat, OP_CODES(nx.opc)),
           next_op_code |-> nx.opc]

\* (variant) the bracket branch is taken only when no operator is left
BracketFirstNoOperator(pat) == Find(pat, "[") >= 0 /\ NextOp(pat).idx < 0

\* the branch of the loop: a bracket before any operator
BracketFirst(pat) ==
  Find(pat, "[") >= 0
    /\ (NextOp(pat).idx > Find(pat, "[") \/ NextOp(pat).idx < 0)

\* one round of the loop: the term at the head of the pattern
ScanTerm(pat, op_code) ==
  IF BracketFirst(pat) THEN BracketTerm(pat, op_code) ELSE NodeTerm(pat, op_code)

\* the loop of _scan_string: the events yielded up to the end of the pattern
\* or to the first error
RECURSIVE ScanLoop(_, _)
RECURSIVE ScanNext(_)

ScanYield(event, r) == [events |-> <<event>> \o r.events, err |-> r.err]

\* (variant) an event carries the operator that follows its term
ScanNextShifted(t) ==
  IF t.err # "none" THEN [events |-> <<>>, err |-> t.err]
  ELSE IF ~t.more THEN [events |-> <<t.event>>, err |-> "none"]
  ELSE ScanYield([t.event EXCEPT !.opc = t.next_op_code],
                 ScanLoop(t.rest, t.next_op_code))

ScanNext(t) ==
  IF t.err # "none" THEN [events |-> <<>>, err |-> t.err]
  ELSE IF ~t.more THEN [events |-> <<t.event>>, err |-> "none"]
  ELSE ScanYield(t.event, ScanLoop(t.rest, t.next_op_code))

ScanLoop(pat, op_code) == ScanNext(ScanTerm(LStrip(pat), op_code))

\* _scan_string
ScanString(nsstr) == ScanLoop(EscapePercent(Strip(nsstr)), "update")

(***************************************************************************)
(* Iteration, indexing.                                                    *)
(***************************************************************************)
\* _iter: the items (pattern, index, padding) of one pattern
IterItems(pat, v) ==
  IF Truthy(v)
    THEN LET s == SortedInts(v.rs)
         IN [i \in 1..Len(s) |-> [pat |-> pat, idx |-> s[i], pad |-> v.pad]]
  ELSE <<[pat |-> pat, idx |-> -1, pad |-> -1]>>

RECURSIVE IterLoop(_, _)
IterLoop(p, keys) ==
  IF keys = <<>> THEN <<>>
  ELSE IterItems(Head(keys), p[Head(keys)]) \o IterLoop(p, Tail(keys))

\* (variant) the patterns are taken in an order of the dict, here the
\* decreasing one, not sorted
IterUnsorted(p) ==
  IterLoop(p, [i \in 1..Cardinality(DOMAIN p) |->
                 SortedKeys(DOMAIN p)[Cardinality(DOMAIN p) + 1 - i]])

Iter(p) == IterLoop(p, SortedKeys(DOMAIN p))

\* __iter__: the node names, in order
NodeName(item) ==
  IF item.idx # -1 THEN Format(item.pat, PadInt(item.pad, item.idx))
  ELSE item.pat

NSIter(p) == LET items == Iter(p) IN [i \in 1..Len(items) |-> NodeName(items[i])]

\* __getitem__ with an integer index: the loop over the sorted patterns
RECURSIVE GetItemLoop(_, _, _, _)
GetItemLoop(p, keys, index, length) ==
  IF keys = <<>> THEN [val |-> <<>>, err |-> "IndexError"]
  ELSE LET pat == Head(keys)
           rangeset == p[pat]
       IN IF Truthy(rangeset)
            THEN IF index < length + RSLen(rangeset)
                   THEN [val |-> Format(pat, RSStr(RSSlice(rangeset,
                                   index - length, index - length + 1))),
                         err |-> "none"]
                 ELSE GetItemLoop(p, Tail(keys), index, length + RSLen(rangeset))
          ELSE IF index = length THEN [val |-> pat, err |-> "none"]
          ELSE GetItemLoop(p, Tail(keys), index, length + 1)

\* (variant) a negative index is not counted from the end
GetItemNoWrap(p, index) ==
  IF index < 0 /\ index < -NSLen(p) THEN [val |-> <<>>, err |-> "IndexError"]
  ELSE GetItemLoop(p, SortedKeys(DOMAIN p), index, 0)

GetItem(p, index) ==
  IF index < 0 /\ index < -NSLen(p) THEN [val |-> <<>>, err |-> "IndexError"]
  ELSE GetItemLoop(p, SortedKeys(DOMAIN p),
                   IF index < 0 THEN NSLen(p) + index ELSE index, 0)

\* __str__
PatternStr(pat, v) ==
  IF Truthy(v)
    THEN Format(pat, IF RSLen(v) > 1 THEN <<"[">> \o RSStr(v) \o <<"]">>
                     ELSE RSStr(v))
  ELSE pat

NSStr(p) ==
  LET keys == SortedKeys(DOMAIN p)
  IN Join(<<",">>, [i \in 1..Len(keys) |-> PatternStr(keys[i], p[keys[i]])])

\* issuperset: every item of other is in self (rangeset.issuperset for a
\* pattern with a rangeset, has_key for the others)
NSIsSuperset(p, other) ==
  \A pat \in DOMAIN other :
    IF Truthy(Get(p, pat)) THEN other[pat].rs \subseteq p[pat].rs
    ELSE HasKey(p, pat)

\* __eq__
NSEq(p, other) == NSLen(p) = NSLen(other) /\ NSIsSuperset(p, other)

(***************************************************************************)
(* The group resolver.  In the default group source group_nodes gives:     *)
(* group g the nodes a1 and a2, group e none, the query of group h fails,  *)
(* every other group has the node b; the groups cannot be listed and there *)
(* is no reverse lookup.  The other group sources are:                     *)
(*   n  k = a1,a2  m = a2,a3  w = a1,a2,a3  u = b   listed, no reverse     *)
(*   v  r1 = a1,a2  r2 = a2,a3  u = b               listed, reverse        *)
(*   o  k = a1,a2  u = b                            not listed, reverse    *)
(*   z  k = a1,a2  e = (no node)                    listed, no reverse     *)
(*   y  k = a1,a2  h (its query fails)              listed, no reverse     *)
(* A group a source does not have cannot be queried in it.                 *)
(***************************************************************************)
NodeA(i) == <<"a", IntToStr(i)[1]>>

SourceGroups(namespace) ==
  CASE namespace = <<"n">> ->
         (<<"k">> :> <<NodeA(1), NodeA(2)>>) @@ (<<"m">> :> <<NodeA(2), NodeA(3)>>)
         @@ (<<"w">> :> <<NodeA(1), NodeA(2), NodeA(3)>>) @@ (<<"u">> :> <<(<<"b">>)>>)
    [] namespace = <<"v">> ->
         (<<"r", "1">> :> <<NodeA(1), NodeA(2)>>)
         @@ (<<"r", "2">> :> <<NodeA(2), NodeA(3)>>) @@ (<<"u">> :> <<(<<"b">>)>>)
    [] namespace = <<"o">> ->
         (<<"k">> :> <<NodeA(1), NodeA(2)>>) @@ (<<"u">> :> <<(<<"b">>)>>)
    [] namespace = <<"z">> ->
         (<<"k">> :> <<NodeA(1), NodeA(2)>>) @@ (<<"e">> :> <<>>)
    [] namespace = <<"y">> ->
         (<<"k">> :> <<NodeA(1), NodeA(2)>>)

GroupSources == {<<"n">>, <<"v">>, <<"o">>, <<"z">>, <<"y">>}

\* group_nodes(group, namespace)
GroupNodes(group, namespace) ==
  IF namespace \in GroupSources
    THEN IF group \in DOMAIN SourceGroups(namespace)
           THEN [err |-> "none", nodes |-> SourceGroups(namespace)[group]]
         ELSE [err |-> "GroupSourceQueryFailed", nodes |-> <<>>]
  ELSE IF group = <<"g">> THEN [err |-> "none", nodes |-> <<(<<"a", "1">>), (<<"a", "2">>)>>]
  ELSE IF group = <<"e">> THEN [err |-> "none", nodes |-> <<>>]
  ELSE IF group = <<"h">> THEN [err |-> "GroupSourceQueryFailed", nodes |-> <<>>]
  ELSE [err |-> "none", nodes |-> <<(<<"b">>)>>]

\* grouplist(namespace)
GroupList(namespace) ==
  IF namespace \in GroupSources \ {<<"o">>}
    THEN [err |-> "none",
          groups |-> SortedKeys(DOMAIN SourceGroups(namespace))
                     \o (IF namespace = <<"y">> THEN <<(<<"h">>)>> ELSE <<>>)]
  ELSE [err |-> "GroupSourceNoUpcall", groups |-> <<>>]

\* has_node_groups(namespace)
HasNodeGroups(namespace) == namespace \in {<<"v">>, <<"o">>}

\* node_groups(node, namespace): the groups of the source that have the node
NodeGroups(node, namespace) ==
  SelectSeq(SortedKeys(DOMAIN SourceGroups(namespace)),
            LAMBDA g : \E i \in DOMAIN SourceGroups(namespace)[g] :
                         SourceGroups(namespace)[g][i] = node)

(***************************************************************************)
(* ParsingEngine: parse, parse_string, parse_group_string.                 *)
(***************************************************************************)
\* parse_group_string: the nodes of the group, joined with ","
ParseGroupString(nodegroup) ==
  LET grpstr == Tail(nodegroup)
      r == IF Find(grpstr, ":") < 0 THEN GroupNodes(grpstr, <<>>)
           ELSE GroupNodes(SplitAfter(grpstr, ":"), SplitBefore(grpstr, ":"))
  IN [err |-> r.err, str |-> Join(<<",">>, r.nodes)]

\* getattr(nodeset, opc)(other)
ApplyOp(opc, p, other) ==
  CASE opc = "update" -> NSUpdate(p, other, AnyOrder(DOMAIN other))
    [] opc = "intersection_update" ->
         NSIntersectionUpdate(p, other, AnyOrder(DOMAIN other))
    [] opc = "difference_update" ->
         NSDifferenceUpdate(p, other, FALSE, AnyOrder(DOMAIN other))
    [] opc = "symmetric_difference_update" ->
         NSSymmetricDifferenceUpdate(p, other,
           AnyOrder(DOMAIN p \cup DOMAIN other))

RECURSIVE Parse(_, _)
RECURSIVE GroupLoop(_, _, _)
RECURSIVE EventLoop(_, _, _)

\* ns_group.update(self.parse(ns_string_ext, autostep))
GroupUpdated(nodegroups, ns_group, group_resolver, upd) ==
  IF upd.err # "none" THEN [ns |-> ns_group, err |-> upd.err]
  ELSE GroupLoop(Tail(nodegroups), upd.p, group_resolver)

GroupParsed(nodegroups, ns_group, group_resolver, sub) ==
  IF sub.err # "none" THEN [ns |-> ns_group, err |-> sub.err]
  ELSE GroupUpdated(nodegroups, ns_group, group_resolver,
                    NSUpdate(ns_group, sub.ns, AnyOrder(DOMAIN sub.ns)))

GroupExpanded(nodegroups, ns_group, group_resolver, ext) ==
  IF ext.err # "none" THEN [ns |-> ns_group, err |-> ext.err]
  ELSE IF ext.str = <<>> THEN GroupLoop(Tail(nodegroups), ns_group, group_resolver)
  ELSE GroupParsed(nodegroups, ns_group, group_resolver,
                   Parse(ext.str, group_resolver))

\* the loop of parse_string over the groups of one @ event: ns_group
GroupLoop(nodegroups, ns_group, group_resolver) ==
  IF nodegroups = <<>> THEN [ns |-> ns_group, err |-> "none"]
  ELSE GroupExpanded(nodegroups, ns_group, group_resolver,
                     ParseGroupString(Head(nodegroups)))

\* getattr(nodeset, opc)(...), then the next event
EventApplied(events, group_resolver, applied) ==
  IF applied.err # "none" THEN [ns |-> applied.p, err |-> applied.err]
  ELSE EventLoop(Tail(events), applied.p, group_resolver)

\* (variant) the nodes of a group are united with the set, whatever the
\* operator before the group
EventGroupUnited(events, nodeset, group_resolver, grp) ==
  IF grp.err # "none" THEN [ns |-> nodeset, err |-> grp.err]
  ELSE EventApplied(events, group_resolver, ApplyOp("update", nodeset, grp.ns))

EventGroup(events, nodeset, group_resolver, grp) ==
  IF grp.err # "none" THEN [ns |-> nodeset, err |-> grp.err]
  ELSE EventApplied(events, group_resolver,
                    ApplyOp(Head(events).opc, nodeset, grp.ns))

\* the loop of parse_string over the events of the scanner: nodeset
EventLoop(events, nodeset, group_resolver) ==
  IF events = <<>> THEN [ns |-> nodeset, err |-> "none"]
  ELSE IF group_resolver /\ Head(Head(events).pat) = "@"
    THEN EventGroup(events, nodeset, group_resolver,
           GroupLoop(NSIter(NodeSetBase(Head(events).pat, Head(events).rset)),
                     EmptyDict, group_resolver))
  ELSE EventApplied(events, group_resolver,
         ApplyOp(Head(events).opc, nodeset,
                 NodeSetBase(Head(events).pat, Head(events).rset)))

\* the end of parse_string: the exception of the scanner, if it raised one
\* after its last event
ParseEnd(r, scan_err) == IF r.err # "none" THEN r ELSE [ns |-> r.ns, err |-> scan_err]

ParseEvents(scan, group_resolver) ==
  ParseEnd(EventLoop(scan.events, EmptyDict, group_resolver), scan.err)

\* parse_string: ns is the local nodeset, returned when err is "none"; the
\* events the scanner yielded before it raised have been applied to it
ParseString(nsstr, group_resolver) ==
  ParseEvents(ScanString(nsstr), group_resolver)

\* (variant) no except clause
ParseNoExcept(r) == r

\* the except clause of parse: GroupSourceQueryFailed becomes
\* NodeSetParseError
ParseExcept(r) ==
  IF r.err = "GroupSourceQueryFailed" THEN [ns |-> r.ns, err |-> "NodeSetParseError"]
  ELSE r

\* parse, for a string
Parse(nsobj, group_resolver) == ParseExcept(ParseString(nsobj, group_resolver))

(***************************************************************************)
(* NodeSet: the set operations with a string operand.                      *)
(***************************************************************************)
\* (variant) the operation is applied with what parse had built when it raised
NodeSetBaseOpPartial(opc, p, nodeset) ==
  [p |-> ApplyOp(opc, p, nodeset.ns).p,
   err |-> IF nodeset.err # "none" THEN nodeset.err
           ELSE ApplyOp(opc, p, nodeset.ns).err]

\* NodeSetBase.<opc>(self, nodeset): an exception of parse has left the
\* method before
NodeSetBaseOp(opc, p, nodeset) ==
  IF nodeset.err # "none" THEN [p |-> p, err |-> nodeset.err]
  ELSE ApplyOp(opc, p, nodeset.ns)

\* NodeSet.update, intersection_update, difference_update,
\* symmetric_difference_update with a string
NodeSetOp(opc, p, other, group_resolver) ==
  NodeSetBaseOp(opc, p, Parse(other, group_resolver))

\* NodeSet(nodes, resolver=...): update of the empty set
NodeSetNew(nodes, group_resolver) ==
  NodeSetOp("update", EmptyDict, nodes, group_resolver)

(***************************************************************************)
(* The members of a NodeSet: a (template, index) pair for each index of a  *)
(* RangeSet, the template alone (idx -1) for an unnumbered node.           *)
(***************************************************************************)
Members(p) ==
  UNION {IF p[k].none THEN {[pat |-> k, idx |-> -1]}
         ELSE {[pat |-> k, idx |-> i] : i \in p[k].rs} : k \in DOMAIN p}

(***************************************************************************)
(* NodeSets given as operands: numbered templates a%s (no padding) and b%s *)
(* (padding 2), unnumbered node b.                                         *)
(***************************************************************************)
NumT == {<<"a", "%", "s">>, <<"b", "%", "s">>}

UnnT == {<<"b">>}

AllT == NumT \cup UnnT

PadOf(t) == IF t = <<"b", "%", "s">> THEN 2 ELSE 0

Idx == 1..MaxIdx

Absent == [none |-> TRUE, rs |-> {}, pad |-> -1, id |-> 0]

Choices(t) ==
  IF t \in NumT THEN {RangeSet(S, PadOf(t)) : S \in (SUBSET Idx) \ {{}}} \cup {Absent}
  ELSE {None, Absent}

Restrict(f) == [k \in {t \in DOMAIN f : f[t] # Absent} |-> f[k]]

Operands ==
  {Restrict(f) : f \in {g \in [AllT -> UNION {Choices(t) : t \in AllT}] :
                          \A t \in AllT : g[t] \in Choices(t)}}

\* the lists given to updaten: NodeSets of at most one template each
BatchOperands == {b \in Operands : Cardinality(DOMAIN b) <= 1}

Batches == UNION {[1..n -> BatchOperands] : n \in 0..MaxBatch}

BatchKeys(bs) == UNION {DOMAIN bs[i] : i \in 1..Len(bs)}

(***************************************************************************)
(* The NodeSet s and the calls made on it, one after the other.            *)
(* err is the exception the last call raised, op the last call, absent     *)
(* whether its operand had a member that s did not have.                   *)
(***************************************************************************)
Init ==
  /\ patterns = EmptyDict
  /\ err = "none"
  /\ op = "init"
  /\ absent = FALSE
  /\ res = <<>>
  /\ arg = EmptyDict
  /\ pre = EmptyDict
  /\ resolver = FALSE

Missing(b) == ~(Members(b) \subseteq Members(patterns))

Update(b) ==
  /\ patterns' = NSUpdate(patterns, b, AnyOrder(DOMAIN b)).p
  /\ err' = NSUpdate(patterns, b, AnyOrder(DOMAIN b)).err
  /\ op' = "update"
  /\ absent' = Missing(b)
  /\ UNCHANGED <<res, arg, pre, resolver>>

Updaten(bs) ==
  /\ patterns' = NSUpdaten(patterns, bs, AnyOrder(BatchKeys(bs))).p
  /\ err' = NSUpdaten(patterns, bs, AnyOrder(BatchKeys(bs))).err
  /\ op' = "updaten"
  /\ absent' = \E i \in 1..Len(bs) : Missing(bs[i])
  /\ UNCHANGED <<res, arg, pre, resolver>>

IntersectionUpdate(b) ==
  /\ patterns' = NSIntersectionUpdate(patterns, b, AnyOrder(DOMAIN b)).p
  /\ err' = NSIntersectionUpdate(patterns, b, AnyOrder(DOMAIN b)).err
  /\ op' = "intersection_update"
  /\ absent' = Missing(b)
  /\ UNCHANGED <<res, arg, pre, resolver>>

DifferenceUpdate(b, strict) ==
  \E o \in Orders(DOMAIN b) :
    /\ patterns' = NSDifferenceUpdate(patterns, b, strict, o).p
    /\ err' = NSDifferenceUpdate(patterns, b, strict, o).err
    /\ op' = IF strict THEN "difference_update_strict" ELSE "difference_update"
    /\ absent' = Missing(b)
    /\ UNCHANGED <<res, arg, pre, resolver>>

Remove(b) ==
  \E o \in Orders(DOMAIN b) :
    /\ patterns' = NSRemove(patterns, b, o).p
    /\ err' = NSRemove(patterns, b, o).err
    /\ op' = "remove"
    /\ absent' = Missing(b)
    /\ UNCHANGED <<res, arg, pre, resolver>>

SymmetricDifferenceUpdate(b) ==
  /\ patterns' = NSSymmetricDifferenceUpdate(patterns, b,
                   AnyOrder(DOMAIN patterns \cup DOMAIN b)).p
  /\ err' = NSSymmetricDifferenceUpdate(patterns, b,
              AnyOrder(DOMAIN patterns \cup DOMAIN b)).err
  /\ op' = "symmetric_difference_update"
  /\ absent' = Missing(b)
  /\ UNCHANGED <<res, arg, pre, resolver>>

Clear ==
  /\ patterns' = NSClear(patterns)
  /\ err' = "none"
  /\ op' = "clear"
  /\ absent' = FALSE
  /\ UNCHANGED <<res, arg, pre, resolver>>

Next ==
  \/ \E b \in Operands : Update(b)
  \/ \E bs \in Batches : Updaten(bs)
  \/ \E b \in Operands : IntersectionUpdate(b)
  \/ \E b \in Operands, strict \in BOOLEAN : DifferenceUpdate(b, strict)
  \/ \E b \in Operands : Remove(b)
  \/ \E b \in Operands : SymmetricDifferenceUpdate(b)
  \/ Clear

Spec == Init /\ [][Next]_vars

\* C1: after any sequence of calls, including calls that raised, no template
\* key of the set maps to an empty RangeSet
NoEmptyRangeSet ==
  \A k \in DOMAIN patterns : patterns[k].none \/ patterns[k].rs # {}

\* C5: remove and difference_update with strict raise KeyError exactly when
\* a member of the operand is absent from the set, and difference_update
\* without strict raises nothing
StrictRaisesIffAbsent ==
  /\ op \in {"remove", "difference_update_strict"} => (err = "KeyError" <=> absent)
  /\ op = "difference_update" => err = "none"

(***************************************************************************)
(* One set operation a.op(b) on every pair of NodeSets: pre is a before    *)
(* the call, arg is b.  A NodeSet a on which a strict removal failed can   *)
(* hold an empty RangeSet, so these are among the values of a.             *)
(***************************************************************************)
DictChoices(t) ==
  IF t \in NumT THEN {RangeSet(S, PadOf(t)) : S \in SUBSET Idx} \cup {Absent}
  ELSE {None, Absent}

Dicts ==
  {Restrict(f) : f \in {g \in [AllT -> UNION {DictChoices(t) : t \in AllT}] :
                          \A t \in AllT : g[t] \in DictChoices(t)}}

InitAlgebra ==
  /\ pre \in Dicts
  /\ arg \in Operands
  /\ patterns = pre
  /\ err = "none"
  /\ op = "init"
  /\ absent = FALSE
  /\ res = <<>>
  /\ resolver = FALSE

UpdateOnce == op = "init" /\ Update(arg)

IntersectionUpdateOnce == op = "init" /\ IntersectionUpdate(arg)

DifferenceUpdateOnce == op = "init" /\ DifferenceUpdate(arg, FALSE)

SymmetricDifferenceUpdateOnce == op = "init" /\ SymmetricDifferenceUpdate(arg)

NextAlgebra ==
  \/ UpdateOnce
  \/ IntersectionUpdateOnce
  \/ DifferenceUpdateOnce
  \/ SymmetricDifferenceUpdateOnce

SpecAlgebra == InitAlgebra /\ [][NextAlgebra]_vars

UnnumberedB == [pat |-> <<"b">>, idx |-> -1]

BracketOf(pfx, rng, sfx) == [bracket |-> TRUE, pfx |-> pfx, rng |-> rng, sfx |-> sfx]

NodeOf(name) == [bracket |-> FALSE, pfx |-> name, rng |-> <<>>, sfx |-> <<>>]

TermText(t) ==
  IF t.bracket THEN t.pfx \o <<"[">> \o t.rng \o <<"]">> \o t.sfx ELSE t.pfx

\* a[1-3], a%[2,3]b, a2, b
ScanTerms ==
  {BracketOf(<<"a">>, <<"1", "-", "3">>, <<>>),
   BracketOf(<<"a", "%">>, <<"2", ",", "3">>, <<"b">>),
   NodeOf(<<"a", "2">>),
   NodeOf(<<"b">>)}

OpSet == {OpChars[i] : i \in 1..4}

ScanInputs ==
  UNION {{[terms |-> ts, ops |-> os] : ts \in [1..n -> ScanTerms],
                                      os \in [1..(n - 1) -> OpSet]}
         : n \in 1..MaxTerms}

RECURSIVE PatternTextFrom(_, _)
PatternTextFrom(in, i) ==
  IF i = Len(in.terms) THEN TermText(in.terms[i])
  ELSE TermText(in.terms[i]) \o <<in.ops[i]>> \o PatternTextFrom(in, i + 1)

PatternText(in) == PatternTextFrom(in, 1)

InitScan ==
  /\ arg \in ScanInputs
  /\ pre = EmptyDict
  /\ patterns = EmptyDict
  /\ err = "none"
  /\ op = "init"
  /\ absent = FALSE
  /\ res = <<>>
  /\ resolver = FALSE

\* the events the scanner yields for the pattern
ScanCall ==
  /\ op = "init"
  /\ res' = ScanString(PatternText(arg)).events
  /\ err' = ScanString(PatternText(arg)).err
  /\ op' = "scan"
  /\ UNCHANGED <<patterns, absent, arg, pre, resolver>>

\* NodeSet(pattern)
NodeSetCall ==
  /\ op = "init"
  /\ patterns' = NodeSetNew(PatternText(arg), resolver).p
  /\ err' = NodeSetNew(PatternText(arg), resolver).err
  /\ op' = "NodeSet"
  /\ UNCHANGED <<res, absent, arg, pre, resolver>>

NextScan == ScanCall \/ NodeSetCall

SpecScan == InitScan /\ [][NextScan]_vars

\* the operation of an operator character, on sets of members
SetOp(c, A, B) ==
  CASE c = "," -> A \cup B
    [] c = "!" -> A \ B
    [] c = "&" -> A \cap B
    [] c = "^" -> (A \ B) \cup (B \ A)

TermMembers(t) == Members(NodeSetNew(TermText(t), FALSE).p)

\* (...((t1 OP1 t2) OP2 t3)...) up to term n
RECURSIVE LeftToRight(_, _)
LeftToRight(in, n) ==
  IF n = 1 THEN SetOp(",", {}, TermMembers(in.terms[1]))
  ELSE SetOp(in.ops[n - 1], LeftToRight(in, n - 1), TermMembers(in.terms[n]))

\* C3: the NodeSet of t1 OP1 t2 ... OPn-1 tn has the members of
\* (...((t1 OP1 t2) OP2 t3)...), the first term being united with the empty
\* set
LeftToRightEvaluation ==
  op = "NodeSet" =>
    err = "none" /\ Members(patterns) = LeftToRight(arg, Len(arg.terms))

\* t1 OP1 (t2 OP2 t3)
RightFirst(in) ==
  SetOp(in.ops[1], TermMembers(in.terms[1]),
        SetOp(in.ops[2], TermMembers(in.terms[2]), TermMembers(in.terms[3])))

\* three terms whose value read from the left is not the value with the
\* second operator applied first
LeftToRightWitness ==
  /\ op = "NodeSet"
  /\ Len(arg.terms) = 3
  /\ arg.ops[1] # arg.ops[2]
  /\ Members(patterns) # RightFirst(arg)
  /\ Members(patterns) # {}

\* the event of a bracket term: its opcode, prefix%ssuffix, the RangeSet of
\* its range list
OpcodeAt(in, i) ==
  IF i = 1 THEN "update"
  ELSE OpNames[CHOOSE k \in 1..4 : OpChars[k] = in.ops[i - 1]]

BracketEvent(in, i) ==
  [opc |-> OpcodeAt(in, i),
   pat |-> EscapePercent(in.terms[i].pfx) \o <<"%", "s">>
             \o EscapePercent(in.terms[i].sfx),
   rset |-> RSParse(in.terms[i].rng)]

\* C4: the scanner yields one event for each term, and for a term
\* prefix[rangelist]suffix the event (opcode, prefix%ssuffix,
\* RangeSet(rangelist)), whatever precedes and follows the term
OneEventPerBracketTerm ==
  op = "scan" =>
    /\ err = "none"
    /\ Len(res) = Len(arg.terms)
    /\ \A i \in 1..Len(arg.terms) :
         arg.terms[i].bracket => res[i] = BracketEvent(arg, i)

\* a bracket with a comma between two other terms
OneEventWitness ==
  /\ op = "scan"
  /\ Len(arg.terms) = 3
  /\ arg.terms[2].bracket
  /\ Find(arg.terms[2].rng, ",") >= 0
  /\ arg.ops = <<"!", ",">>
  /\ Cardinality(res[2].rset.rs) = 2

(***************************************************************************)
(* A set operation of the NodeSet s with a string operand.  pre is s       *)
(* before the call, arg the terms and operators of the string; a term is   *)
(* well formed, malformed, or a group (the query of @h fails).             *)
(***************************************************************************)
GoodTerm(text) == [text |-> text, kind |-> "good"]

BadTerm(text) == [text |-> text, kind |-> "malformed"]

GroupTerm(text) == [text |-> text, kind |-> "group"]

\* a1, a[1-2], b; the empty term, a[1, a[2-1], [1], 12; @g, @h, @e
OperandTerms ==
  {GoodTerm(<<"a", "1">>),
   GoodTerm(<<"a", "[", "1", "-", "2", "]">>),
   GoodTerm(<<"b">>),
   BadTerm(<<>>),
   BadTerm(<<"a", "[", "1">>),
   BadTerm(<<"a", "[", "2", "-", "1", "]">>),
   BadTerm(<<"[", "1", "]">>),
   BadTerm(<<"1", "2">>),
   GroupTerm(<<"@", "g">>),
   GroupTerm(<<"@", "h">>),
   GroupTerm(<<"@", "e">>)}

OperandOps == {",", "!"}

OperandInputs ==
  UNION {{[terms |-> ts, ops |-> os] : ts \in [1..n -> OperandTerms],
                                      os \in [1..(n - 1) -> OperandOps]}
         : n \in 1..MaxOperandTerms}

RECURSIVE OperandTextFrom(_, _)
OperandTextFrom(in, i) ==
  IF i = Len(in.terms) THEN in.terms[i].text
  ELSE in.terms[i].text \o <<in.ops[i]>> \o OperandTextFrom(in, i + 1)

OperandText(in) == OperandTextFrom(in, 1)

\* s before the call: empty, a[1-2] and b, a2 and b[01-02]
Targets ==
  {EmptyDict,
   (<<"a", "%", "s">> :> RangeSet({1, 2}, 0)) @@ (<<"b">> :> None),
   (<<"a", "%", "s">> :> RangeSet({2}, 0)) @@ (<<"b", "%", "s">> :> RangeSet({1, 2}, 2))}

InitOperand ==
  /\ pre \in Targets
  /\ arg \in OperandInputs
  /\ resolver \in BOOLEAN
  /\ patterns = pre
  /\ err = "none"
  /\ op = "init"
  /\ absent = FALSE
  /\ res = <<>>

StringOpResult(opc) == NodeSetOp(opc, patterns, OperandText(arg), resolver)

UpdateString ==
  /\ op = "init"
  /\ patterns' = StringOpResult("update").p
  /\ err' = StringOpResult("update").err
  /\ op' = "update"
  /\ UNCHANGED <<res, absent, arg, pre, resolver>>

IntersectionUpdateString ==
  /\ op = "init"
  /\ patterns' = StringOpResult("intersection_update").p
  /\ err' = StringOpResult("intersection_update").err
  /\ op' = "intersection_update"
  /\ UNCHANGED <<res, absent, arg, pre, resolver>>

DifferenceUpdateString ==
  /\ op = "init"
  /\ patterns' = StringOpResult("difference_update").p
  /\ err' = StringOpResult("difference_update").err
  /\ op' = "difference_update"
  /\ UNCHANGED <<res, absent, arg, pre, resolver>>

SymmetricDifferenceUpdateString ==
  /\ op = "init"
  /\ patterns' = StringOpResult("symmetric_difference_update").p
  /\ err' = StringOpResult("symmetric_difference_update").err
  /\ op' = "symmetric_difference_update"
  /\ UNCHANGED <<res, absent, arg, pre, resolver>>

\* NodeSet(string, resolver=...): no NodeSet when it raises
NodeSetString ==
  /\ op = "init"
  /\ pre = EmptyDict
  /\ patterns' = NodeSetNew(OperandText(arg), resolver).p
  /\ err' = NodeSetNew(OperandText(arg), resolver).err
  /\ op' = "NodeSet"
  /\ UNCHANGED <<res, absent, arg, pre, resolver>>

NextOperand ==
  \/ UpdateString
  \/ IntersectionUpdateString
  \/ DifferenceUpdateString
  \/ SymmetricDifferenceUpdateString
  \/ NodeSetString

SpecOperand == InitOperand /\ [][NextOperand]_vars

\* the term cannot be turned into nodes
TermFails(t) ==
  t.kind = "malformed" \/ (resolver /\ t.text = <<"@", "h">>)

Unparsable(in) == \E i \in 1..Len(in.terms) : TermFails(in.terms[i])

UpdateOps ==
  {"update", "intersection_update", "difference_update",
   "symmetric_difference_update"}

\* C6: when the string operand holds a malformed term or a group whose
\* query fails, the operation raises and the set has the members it had
\* before the call
FailedOperandLeavesSet ==
  (op \in UpdateOps /\ Unparsable(arg)) =>
    (err # "none" /\ Members(patterns) = Members(pre))

\* a failing term after a valid one that would have changed the set
FailedOperandWitness ==
  /\ op = "update"
  /\ Len(arg.terms) = 2
  /\ arg.terms[1].text = <<"a", "1">>
  /\ TermFails(arg.terms[2])
  /\ pre # EmptyDict
  /\ [pat |-> <<"a", "%", "s">>, idx |-> 1] \notin Members(pre)
  /\ err # "none"

\* the first term that fails is the group whose query fails
QueryFails(in) ==
  /\ resolver
  /\ \E i \in 1..Len(in.terms) :
       /\ in.terms[i].text = <<"@", "h">>
       /\ \A j \in 1..(i - 1) : ~TermFails(in.terms[j])

FoldTerms ==
  {BracketOf(<<"a">>, <<"1", "-", "2">>, <<>>),
   BracketOf(<<"b">>, <<"0", "1", "-", "0", "2">>, <<>>),
   BracketOf(<<"a", "1", "b">>, <<"2">>, <<>>),
   NodeOf(<<"a", "1">>),
   NodeOf(<<"b">>),
   NodeOf(<<"a">>),
   NodeOf(<<"a", "%">>),
   NodeOf(<<"a", "%", "1">>)}

FoldInputs ==
  UNION {{[terms |-> ts, ops |-> [i \in 1..(n - 1) |-> ","]] :
            ts \in [1..n -> FoldTerms]} : n \in 1..MaxTerms}

InitFold ==
  /\ arg \in FoldInputs
  /\ pre = EmptyDict
  /\ patterns = EmptyDict
  /\ err = "none"
  /\ op = "init"
  /\ absent = FALSE
  /\ res = <<>>
  /\ resolver = FALSE

\* str(a), and NodeSet(str(a))
StrCall ==
  /\ op = "NodeSet"
  /\ err = "none"
  /\ res' = [str |-> NSStr(patterns),
             back |-> NodeSetNew(NSStr(patterns), resolver)]
  /\ op' = "str"
  /\ UNCHANGED <<patterns, err, absent, arg, pre, resolver>>

\* list(a)
IterCall ==
  /\ op = "NodeSet"
  /\ err = "none"
  /\ res' = NSIter(patterns)
  /\ op' = "iter"
  /\ UNCHANGED <<patterns, err, absent, arg, pre, resolver>>

NextFold == NodeSetCall \/ StrCall \/ IterCall

SpecFold == InitFold /\ [][NextFold]_vars

HasPercent(t) == Find(TermText(t), "%") >= 0

\* C8: the NodeSet parsed from str(a) is equal to a (checked here on the
\* patterns free of %, so that a failure is one of folding and parsing alone)
FoldParseRoundTrip ==
  (op = "str" /\ \A i \in 1..Len(arg.terms) : ~HasPercent(arg.terms[i])) =>
    (res.back.err = "none" /\ NSEq(res.back.p, patterns))

\* C9: the NodeSet of one node name that holds a % expands and folds to the
\* name as written
PercentNameKept ==
  (Len(arg.terms) = 1 /\ ~arg.terms[1].bracket /\ HasPercent(arg.terms[1])) =>
    /\ op = "iter" => res = <<TermText(arg.terms[1])>>
    /\ op = "str" => res.str = TermText(arg.terms[1])

(***************************************************************************)
(* a[i] on every NodeSet a.                                                *)
(***************************************************************************)
InitIndex ==
  /\ patterns \in Dicts
  /\ pre = EmptyDict
  /\ arg = EmptyDict
  /\ err = "none"
  /\ op = "init"
  /\ absent = FALSE
  /\ res = <<>>
  /\ resolver = FALSE

MaxLen == 2 * MaxIdx + 1

GetItemCall(i) ==
  /\ op = "init"
  /\ res' = [index |-> i, val |-> GetItem(patterns, i).val]
  /\ err' = GetItem(patterns, i).err
  /\ op' = "getitem"
  /\ UNCHANGED <<patterns, absent, arg, pre, resolver>>

NextIndex == \E i \in (-MaxLen - 1)..(MaxLen + 1) : GetItemCall(i)

SpecIndex == InitIndex /\ [][NextIndex]_vars

\* C10: with n the number of names the iteration yields, a[i] is the i-th
\* name for 0 <= i < n, a[n+i] for -n <= i < 0, and IndexError otherwise
IndexAgreesWithIteration ==
  op = "getitem" =>
    LET names == NSIter(patterns)
        n == Len(names)
        i == res.index
    IN IF 0 <= i /\ i < n THEN err = "none" /\ res.val = names[i + 1]
       ELSE IF -n <= i /\ i < 0 THEN err = "none" /\ res.val = names[n + i + 1]
       ELSE err = "IndexError"

\* the last of several names, a padded one, by a negative index
IndexWitness ==
  /\ op = "getitem"
  /\ res.index = -1
  /\ NSLen(patterns) = MaxLen
  /\ res.val = <<"b">> \o PadInt(2, MaxIdx)
  /\ err = "none"

(***************************************************************************)
(* a[i:j] and a.split(n).                                                  *)
(***************************************************************************)
\* the parameters of def _extractslice(self, index)
ExtractSliceParams == 2

\* the arguments of the call self._extractslice(self, index): the bound
\* self, self again, index
ExtractSliceArgs == 3

Min(x, y) == IF x < y THEN x ELSE y

Max(x, y) == IF x > y THEN x ELSE y

\* the body of _extractslice for slice(start, stop) with integers and no step
ExtractSlice(p, start, stop) ==
  [sl_start |-> IF start < 0 THEN Max(0, NSLen(p) + start) ELSE start,
   sl_stop |-> IF stop < 0 THEN Max(0, NSLen(p) + stop) ELSE stop,
   sl_step |-> 1]

\* the loop of the slice branch over the sorted patterns (sl_step is 1, so
\* sl_next is never adjusted)
RECURSIVE SliceLoop(_, _, _, _, _, _)
SliceStep(p, keys, sl_next, sl_stop, length, inst) ==
  IF sl_next >= sl_stop THEN inst
  ELSE SliceLoop(p, keys, sl_next, sl_stop, length, inst)

SliceLoop(p, keys, sl_next, sl_stop, length, inst) ==
  IF keys = <<>> THEN inst
  ELSE IF Truthy(p[Head(keys)])
    THEN IF sl_next - length < RSLen(p[Head(keys)])
           THEN SliceStep(p, Tail(keys),
                  sl_next + Min(sl_stop - sl_next,
                                RSLen(p[Head(keys)]) - (sl_next - length)),
                  sl_stop, length + RSLen(p[Head(keys)]),
                  Add(inst, Head(keys),
                      RSSlice(p[Head(keys)], sl_next - length,
                              sl_next - length
                                + Min(sl_stop - sl_next,
                                      RSLen(p[Head(keys)]) - (sl_next - length)))))
         ELSE SliceLoop(p, Tail(keys), sl_next, sl_stop,
                        length + RSLen(p[Head(keys)]), inst)
  ELSE IF sl_next > length
    THEN SliceLoop(p, Tail(keys), sl_next, sl_stop, length + 1, inst)
  ELSE SliceStep(p, Tail(keys), sl_next + 1, sl_stop, length + 1,
                 Add(inst, Head(keys), None))

SliceFrom(p, sl) ==
  IF sl.sl_stop <= sl.sl_start THEN EmptyDict
  ELSE SliceLoop(p, SortedKeys(DOMAIN p), sl.sl_start, sl.sl_stop, 0, EmptyDict)

\* __getitem__ with a slice: the call of _extractslice is TypeError when it
\* gives more arguments than the method takes, and nothing is returned
GetSlice(p, start, stop) ==
  IF ExtractSliceArgs # ExtractSliceParams
    THEN [p |-> EmptyDict, err |-> "TypeError"]
  ELSE [p |-> SliceFrom(p, ExtractSlice(p, start, stop)), err |-> "none"]

\* NodeSet.__getitem__: the NodeSetBase of a slice becomes a NodeSet
NodeSetGetSlice(p, start, stop) == GetSlice(p, start, stop)

\* NodeSet.split(nbr), a generator: parts are the NodeSets yielded before
\* the end or before the exception err
RECURSIVE SplitLoop(_, _, _, _)
SplitYield(p, nbr, i, begin, part) ==
  IF part.err # "none" THEN [parts |-> <<>>, err |-> part.err]
  ELSE [parts |-> <<part.p>>
                    \o SplitLoop(p, nbr, i + 1,
                         begin + (NSLen(p) \div nbr)
                           + (IF i < NSLen(p) % nbr THEN 1 ELSE 0)).parts,
        err |-> SplitLoop(p, nbr, i + 1,
                  begin + (NSLen(p) \div nbr)
                    + (IF i < NSLen(p) % nbr THEN 1 ELSE 0)).err]

SplitLoop(p, nbr, i, begin) ==
  IF i >= Min(nbr, NSLen(p)) THEN [parts |-> <<>>, err |-> "none"]
  ELSE SplitYield(p, nbr, i, begin,
         NodeSetGetSlice(p, begin,
           begin + (NSLen(p) \div nbr) + (IF i < NSLen(p) % nbr THEN 1 ELSE 0)))

NSSplit(p, nbr) == SplitLoop(p, nbr, 0, 0)

InitSlice ==
  /\ patterns \in Operands
  /\ pre = EmptyDict
  /\ arg = EmptyDict
  /\ err = "none"
  /\ op = "init"
  /\ absent = FALSE
  /\ res = <<>>
  /\ resolver = FALSE

\* a[i:j]
SliceCall(i, j) ==
  /\ op = "init"
  /\ res' = [i |-> i, j |-> j, p |-> NodeSetGetSlice(patterns, i, j).p]
  /\ err' = NodeSetGetSlice(patterns, i, j).err
  /\ op' = "slice"
  /\ UNCHANGED <<patterns, absent, arg, pre, resolver>>

\* list(a.split(n))
SplitCall(n) ==
  /\ op = "init"
  /\ res' = [n |-> n, parts |-> NSSplit(patterns, n).parts]
  /\ err' = NSSplit(patterns, n).err
  /\ op' = "split"
  /\ UNCHANGED <<patterns, absent, arg, pre, resolver>>

NextSlice ==
  \/ \E i, j \in 0..MaxLen : SliceCall(i, j)
  \/ \E n \in 1..(MaxLen + 1) : SplitCall(n)

SpecSlice == InitSlice /\ [][NextSlice]_vars

\* C11: for 0 <= i <= j the slice a[i:j] has min(j, len(a)) - i names when
\* i <= len(a), and its k-th name is the (i+k)-th name of a
SliceLaw ==
  (op = "slice" /\ res.i <= res.j /\ res.i <= NSLen(patterns)) =>
    /\ err = "none"
    /\ NSLen(res.p) = Min(res.j, NSLen(patterns)) - res.i
    /\ \A k \in 0..(NSLen(res.p) - 1) :
         GetItem(res.p, k) = GetItem(patterns, res.i + k)

RECURSIVE Concat(_)
Concat(seqs) == IF seqs = <<>> THEN <<>> ELSE Head(seqs) \o Concat(Tail(seqs))

\* C12: split(n) yields min(n, L) NodeSets, none empty, the first L mod n
\* of floor(L/n)+1 names and the others of floor(L/n), whose iterations put
\* end to end are the iteration of the original
SplitPartitions ==
  op = "split" =>
    LET L == NSLen(patterns)
    IN /\ err = "none"
       /\ Len(res.parts) = Min(res.n, L)
       /\ \A i \in 1..Len(res.parts) :
            NSLen(res.parts[i]) = (L \div res.n) + (IF i - 1 < L % res.n THEN 1 ELSE 0)
       /\ Concat([i \in 1..Len(res.parts) |-> NSIter(res.parts[i])])
            = NSIter(patterns)

(***************************************************************************)
(* The order of iteration, in every state of Spec.                         *)
(***************************************************************************)
\* C13: after any sequence of calls the items of the iteration are strictly
\* increasing in (template, index)
CanonicalOrder ==
  \A i \in 1..(Len(Iter(patterns)) - 1) :
    \/ StrLess(Iter(patterns)[i].pat, Iter(patterns)[i + 1].pat)
    \/ /\ Iter(patterns)[i].pat = Iter(patterns)[i + 1].pat
       /\ Iter(patterns)[i].idx < Iter(patterns)[i + 1].idx

\* every name of every template is in the set, the last of them added by
\* an updaten
CanonicalOrderWitness ==
  /\ op = "updaten"
  /\ absent
  /\ Len(Iter(patterns)) = MaxLen
  /\ Members(patterns) = {[pat |-> Iter(patterns)[i].pat, idx |-> Iter(patterns)[i].idx]
                            : i \in 1..MaxLen}

(***************************************************************************)
(* Extended patterns with group terms, parsed with a resolver set.         *)
(***************************************************************************)
\* a[1-3], a2, a1, b, and the groups @g (a1, a2), @e (no node), @x (b)
GroupPatternTerms ==
  {BracketOf(<<"a">>, <<"1", "-", "3">>, <<>>),
   NodeOf(<<"a", "2">>),
   NodeOf(<<"a", "1">>),
   NodeOf(<<"b">>),
   NodeOf(<<"@", "g">>),
   NodeOf(<<"@", "e">>),
   NodeOf(<<"@", "x">>)}

GroupInputs ==
  UNION {{[terms |-> ts, ops |-> os] : ts \in [1..n -> GroupPatternTerms],
                                      os \in [1..(n - 1) -> OpSet]}
         : n \in 1..MaxGroupTerms}

InitGroup ==
  /\ arg \in GroupInputs
  /\ pre = EmptyDict
  /\ patterns = EmptyDict
  /\ err = "none"
  /\ op = "init"
  /\ absent = FALSE
  /\ res = <<>>
  /\ resolver = TRUE

\* NodeSet(pattern, resolver=...)
GroupPatternCall ==
  /\ op = "init"
  /\ patterns' = NodeSetNew(PatternText(arg), resolver).p
  /\ err' = NodeSetNew(PatternText(arg), resolver).err
  /\ op' = "NodeSet"
  /\ UNCHANGED <<res, absent, arg, pre, resolver>>

\* s.update(pattern) on the NodeSet of the pattern, which adds nothing
GroupPatternAgain ==
  /\ op = "NodeSet"
  /\ err = "none"
  /\ patterns' = NodeSetOp("update", patterns, PatternText(arg), resolver).p
  /\ err' = NodeSetOp("update", patterns, PatternText(arg), resolver).err
  /\ op' = "update"
  /\ UNCHANGED <<res, absent, arg, pre, resolver>>

NextGroup == GroupPatternCall \/ GroupPatternAgain

SpecGroup == InitGroup /\ [][NextGroup]_vars

IsGroupTerm(t) == Head(t.pfx) = "@"

\* the nodes of the list the resolver gives for the group of a term
GroupTermMembers(t) ==
  UNION {Members(NodeSetNew(GroupNodes(Tail(t.pfx), <<>>).nodes[i], FALSE).p)
           : i \in 1..Len(GroupNodes(Tail(t.pfx), <<>>).nodes)}

RECURSIVE GroupLeftToRight(_, _)
GroupLeftToRight(in, n) ==
  LET M == IF IsGroupTerm(in.terms[n]) THEN GroupTermMembers(in.terms[n])
           ELSE TermMembers(in.terms[n])
  IN IF n = 1 THEN M
     ELSE SetOp(in.ops[n - 1], GroupLeftToRight(in, n - 1), M)

\* C16: with a resolver, the members of X OP @g are those of X OP the set
\* of all the nodes the resolver lists for g, and uniting the pattern with
\* its own NodeSet adds nothing
GroupAppliedAsOne ==
  op \in {"NodeSet", "update"} =>
    err = "none" /\ Members(patterns) = GroupLeftToRight(arg, Len(arg.terms))

\* a[1-3]!@g: removing the two nodes of g one after the other, the second
\* united, would leave a2
GroupAppliedWitness ==
  /\ op = "NodeSet"
  /\ Len(arg.terms) = 2
  /\ arg.terms[2] = NodeOf(<<"@", "g">>)
  /\ arg.ops[1] = "!"
  /\ Members(patterns) = {[pat |-> <<"a", "%", "s">>, idx |-> 3]}

(***************************************************************************)
(* RangeSet objects held by more than one NodeSet: a RangeSet changed in   *)
(* place through one NodeSet is changed for every NodeSet that holds it.   *)
(***************************************************************************)
\* the NodeSet q holds the object i
Holds(q, i) == \E k \in DOMAIN q : ~q[k].none /\ q[k].id = i

ObjectIn(q, i) == q[CHOOSE k \in DOMAIN q : ~q[k].none /\ q[k].id = i]

\* the NodeSet p as it is after a call that left the NodeSet q
Seen(p, q) ==
  [k \in DOMAIN p |->
     IF ~p[k].none /\ p[k].id > 0 /\ Holds(q, p[k].id) THEN ObjectIn(q, p[k].id)
     ELSE p[k]]

\* the NodeSet p with its RangeSets named base + 1, base + 2, ...
Named(p, base) ==
  [k \in DOMAIN p |->
     IF p[k].none THEN p[k]
     ELSE [p[k] EXCEPT !.id =
             base + (CHOOSE n \in 1..Cardinality(DOMAIN p) :
                       SortedKeys(DOMAIN p)[n] = k)]]

(***************************************************************************)
(* s.updaten([b1, ..., bn]) and s.update(b1); ...; s.update(bn): pre is s  *)
(* before, arg the list, res the list after the call.                      *)
(***************************************************************************)
NamedBatches ==
  {[i \in DOMAIN bs |-> Named(bs[i], (i - 1) * Cardinality(AllT))] : bs \in Batches}

InitBulk ==
  /\ pre \in Targets
  /\ arg \in NamedBatches
  /\ patterns = pre
  /\ err = "none"
  /\ op = "init"
  /\ absent = FALSE
  /\ res = <<>>
  /\ resolver = FALSE

UpdatenCall ==
  /\ op = "init"
  /\ patterns' = NSUpdaten(patterns, arg, AnyOrder(BatchKeys(arg))).p
  /\ err' = NSUpdaten(patterns, arg, AnyOrder(BatchKeys(arg))).err
  /\ res' = [i \in DOMAIN arg |->
               Seen(arg[i], NSUpdaten(patterns, arg, AnyOrder(BatchKeys(arg))).p)]
  /\ op' = "updaten"
  /\ UNCHANGED <<absent, arg, pre, resolver>>

RECURSIVE UpdateEach(_, _)
UpdateEach(p, others) ==
  IF others = <<>> THEN [p |-> p, err |-> "none"]
  ELSE IF NSUpdate(p, Head(others), AnyOrder(DOMAIN Head(others))).err # "none"
    THEN NSUpdate(p, Head(others), AnyOrder(DOMAIN Head(others)))
  ELSE UpdateEach(NSUpdate(p, Head(others), AnyOrder(DOMAIN Head(others))).p,
                  Tail(others))

UpdateEachCall ==
  /\ op = "init"
  /\ patterns' = UpdateEach(patterns, arg).p
  /\ err' = UpdateEach(patterns, arg).err
  /\ res' = [i \in DOMAIN arg |-> Seen(arg[i], UpdateEach(patterns, arg).p)]
  /\ op' = "update"
  /\ UNCHANGED <<absent, arg, pre, resolver>>

NextBulk == UpdatenCall \/ UpdateEachCall

SpecBulk == InitBulk /\ [][NextBulk]_vars

\* C18: s.updaten(list) leaves s with the members s.update(b) for each b of
\* the list leaves, the members of s and of all the b, and leaves the list
\* as it was
BulkAddIsSequentialAdd ==
  op \in {"updaten", "update"} =>
    /\ err = "none"
    /\ Members(patterns) = Members(UpdateEach(pre, arg).p)
    /\ Members(patterns)
         = Members(pre) \cup UNION {Members(arg[i]) : i \in 1..Len(arg)}
    /\ res = arg

\* two NodeSets of one template that s does not hold are added at once, the
\* second with a member the first has not
BulkAddWitness ==
  /\ op = "updaten"
  /\ Len(arg) = 2
  /\ DOMAIN arg[1] = {<<"b", "%", "s">>}
  /\ DOMAIN arg[2] = {<<"b", "%", "s">>}
  /\ ~(<<"b", "%", "s">> \in DOMAIN pre)
  /\ ~(Members(arg[2]) \subseteq Members(arg[1]))
  /\ Members(arg[1]) \cup Members(arg[2]) \subseteq Members(patterns)

(***************************************************************************)
(* Two NodeSets a (patterns) and b (arg) with their own RangeSets, the     *)
(* calls that make one from the other, and calls made later on either.     *)
(* pre is a and b before the last call, res the NodeSet a call returned.   *)
(***************************************************************************)
\* p after a call that made q1 of the NodeSet q0: a rangeset that q0 held
\* and q1 does not was emptied in place before its key was deleted, when
\* the call is a difference or a symmetric difference
SeenAfter(p, q0, q1, emptied) ==
  [k \in DOMAIN p |->
     IF ~p[k].none /\ p[k].id > 0 /\ Holds(q1, p[k].id) THEN ObjectIn(q1, p[k].id)
     ELSE IF emptied /\ ~p[k].none /\ p[k].id > 0 /\ Holds(q0, p[k].id)
       THEN [p[k] EXCEPT !.rs = {}]
     ELSE p[k]]

Empties(opc) == opc \in {"difference_update", "symmetric_difference_update"}

Ids(p) == {p[k].id : k \in {x \in DOMAIN p : ~p[x].none}}

InitShare ==
  /\ patterns \in {Named(t, 0) : t \in Targets}
  /\ arg \in {Named(b, Cardinality(AllT)) : b \in Operands}
  /\ pre = [a |-> patterns, b |-> arg]
  /\ err = "none"
  /\ op = "init"
  /\ absent = FALSE
  /\ res = EmptyDict
  /\ resolver = FALSE

\* a.update(b)
UpdateShare ==
  /\ op = "init"
  /\ patterns' = NSUpdate(patterns, arg, AnyOrder(DOMAIN arg)).p
  /\ err' = NSUpdate(patterns, arg, AnyOrder(DOMAIN arg)).err
  /\ arg' = Seen(arg, NSUpdate(patterns, arg, AnyOrder(DOMAIN arg)).p)
  /\ pre' = [a |-> patterns, b |-> arg]
  /\ op' = "update"
  /\ UNCHANGED <<res, absent, resolver>>

\* a.updaten([b])
UpdatenShare ==
  /\ op = "init"
  /\ patterns' = NSUpdaten(patterns, <<arg>>, AnyOrder(DOMAIN arg)).p
  /\ err' = NSUpdaten(patterns, <<arg>>, AnyOrder(DOMAIN arg)).err
  /\ arg' = Seen(arg, NSUpdaten(patterns, <<arg>>, AnyOrder(DOMAIN arg)).p)
  /\ pre' = [a |-> patterns, b |-> arg]
  /\ op' = "updaten"
  /\ UNCHANGED <<res, absent, resolver>>

\* a.symmetric_difference_update(b)
SymmetricDifferenceShare ==
  /\ op = "init"
  /\ patterns' = NSSymmetricDifferenceUpdate(patterns, arg,
                   AnyOrder(DOMAIN patterns \cup DOMAIN arg)).p
  /\ err' = NSSymmetricDifferenceUpdate(patterns, arg,
              AnyOrder(DOMAIN patterns \cup DOMAIN arg)).err
  /\ arg' = SeenAfter(arg, patterns,
              NSSymmetricDifferenceUpdate(patterns, arg,
                AnyOrder(DOMAIN patterns \cup DOMAIN arg)).p, TRUE)
  /\ pre' = [a |-> patterns, b |-> arg]
  /\ op' = "symmetric_difference_update"
  /\ UNCHANGED <<res, absent, resolver>>

Adopting == {"update", "updaten", "symmetric_difference_update"}

\* a later call a.opc(x)
ThenOnA(opc, x) ==
  /\ op \in Adopting
  /\ patterns' = ApplyOp(opc, patterns, x).p
  /\ err' = ApplyOp(opc, patterns, x).err
  /\ arg' = SeenAfter(arg, patterns, ApplyOp(opc, patterns, x).p, Empties(opc))
  /\ pre' = [a |-> patterns, b |-> arg]
  /\ op' = "then_a"
  /\ UNCHANGED <<res, absent, resolver>>

\* a later call b.opc(x)
ThenOnB(opc, x) ==
  /\ op \in Adopting
  /\ arg' = ApplyOp(opc, arg, x).p
  /\ err' = ApplyOp(opc, arg, x).err
  /\ patterns' = SeenAfter(patterns, arg, ApplyOp(opc, arg, x).p, Empties(opc))
  /\ pre' = [a |-> patterns, b |-> arg]
  /\ op' = "then_b"
  /\ UNCHANGED <<res, absent, resolver>>

\* a.copy()
CopyCall ==
  /\ op = "init"
  /\ res' = NSCopy(patterns)
  /\ patterns' = Seen(patterns, NSCopy(patterns))
  /\ pre' = [a |-> patterns, b |-> arg]
  /\ op' = "copy"
  /\ UNCHANGED <<err, arg, absent, resolver>>

\* a.union(b), a.intersection(b), a.difference(b),
\* a.symmetric_difference(b): the in-place call on a copy of a
BinaryCall(opc) ==
  /\ op = "init"
  /\ res' = ApplyOp(opc, NSCopy(patterns), arg).p
  /\ err' = ApplyOp(opc, NSCopy(patterns), arg).err
  /\ patterns' = SeenAfter(patterns, NSCopy(patterns),
                   ApplyOp(opc, NSCopy(patterns), arg).p, Empties(opc))
  /\ arg' = SeenAfter(arg, NSCopy(patterns),
              ApplyOp(opc, NSCopy(patterns), arg).p, Empties(opc))
  /\ pre' = [a |-> patterns, b |-> arg]
  /\ op' = "binary"
  /\ UNCHANGED <<absent, resolver>>

NextShare ==
  \/ UpdateShare
  \/ UpdatenShare
  \/ SymmetricDifferenceShare
  \/ \E i \in 1..4, x \in BatchOperands : ThenOnA(OpNames[i], x)
  \/ \E i \in 1..4, x \in BatchOperands : ThenOnB(OpNames[i], x)
  \/ CopyCall
  \/ \E i \in 1..4 : BinaryCall(OpNames[i])

SpecShare == InitShare /\ [][NextShare]_vars

\* C19: a and b hold no RangeSet in common, a NodeSet returned by copy,
\* union, intersection, difference or symmetric_difference holds none of
\* theirs and leaves them as they were, a.update(b), a.updaten([b]) and
\* a.symmetric_difference_update(b) leave b as it was, and a later call on
\* one of a and b leaves the other as it was
NoSharedRangeSet ==
  /\ Ids(patterns) \cap Ids(arg) \subseteq {0}
  /\ Ids(res) \cap (Ids(patterns) \cup Ids(arg)) \subseteq {0}
  /\ op \in {"copy", "binary"} => patterns = pre.a /\ arg = pre.b
  /\ op \in Adopting \cup {"then_a"} => arg = pre.b
  /\ op = "then_b" => patterns = pre.a

\* a held a rangeset with the members of one of b, under a template of b,
\* and a later call on a took members from it
NoSharedWitness ==
  /\ op = "then_a"
  /\ \E k \in DOMAIN arg \cap DOMAIN pre.a :
       /\ ~arg[k].none
       /\ pre.a[k].rs = arg[k].rs
       /\ pre.a[k].id = 0
       /\ k \in DOMAIN patterns
       /\ patterns[k].rs # arg[k].rs
       /\ patterns[k].rs \subseteq arg[k].rs

(***************************************************************************)
(* The in-place operations called with the set itself as operand: other    *)
(* and self are one object, so what a loop reads of other is what the      *)
(* steps before it left in self.                                           *)
(***************************************************************************)
\* s.update(s): _add(pat, rangeset) with the rangeset s has under pat
RECURSIVE UpdateSelfLoop(_, _)
UpdateSelfLoop(p, keys) ==
  IF keys = <<>> THEN [p |-> p, err |-> "none"]
  ELSE IF AddFails(p, Head(keys), p[Head(keys)])
    THEN [p |-> p, err |-> "AssertionError"]
  ELSE UpdateSelfLoop(Add(p, Head(keys), p[Head(keys)]), Tail(keys))

NSUpdateSelf(p, order) == UpdateSelfLoop(p, IterKeys(p, order))

\* s.intersection_update(s): "if other is self: return"
NSIntersectionUpdateSelf(p) == [p |-> p, err |-> "none"]

\* s.difference_update(s, strict): each rangeset has itself taken from it,
\* the keys are deleted after the loop
RECURSIVE DifferenceSelfLoop(_, _, _, _)
DifferenceSelfLoop(p, strict, keys, purge) ==
  IF keys = <<>> THEN Purge(p, purge)
  ELSE LET pat == Head(keys)
           rangeset == p[pat]
           left == RSDifferenceUpdate(rangeset, rangeset)
       IN IF Truthy(rangeset)
            THEN IF RSDifferenceFails(rangeset, rangeset, strict)
                   THEN [p |-> p, err |-> "KeyError"]
                 ELSE DifferenceSelfLoop(Put(p, pat, left), strict, Tail(keys),
                        IF RSLen(left) = 0 THEN Append(purge, pat) ELSE purge)
          ELSE DifferenceSelfLoop(p, strict, Tail(keys), Append(purge, pat))

NSDifferenceUpdateSelf(p, strict, order) ==
  DifferenceSelfLoop(p, strict, IterKeys(p, order), <<>>)

\* s.symmetric_difference_update(s): first loop
RECURSIVE SymDiffSelfOurs(_, _, _)
SymDiffSelfOurs(p, keys, purge) ==
  IF keys = <<>> THEN [p |-> p, purge |-> purge]
  ELSE LET pat == Head(keys)
       IN IF Truthy(p[pat])
            THEN SymDiffSelfOurs(
                   Put(p, pat, RSSymmetricDifferenceUpdate(p[pat], p[pat])),
                   Tail(keys), purge)
          ELSE SymDiffSelfOurs(p, Tail(keys), Append(purge, pat))

\* the second loop adds nothing, every pattern of other being one of self
NSSymmetricDifferenceUpdateSelf(p, order) ==
  LET one == SymDiffSelfOurs(p, IterKeys(p, order), <<>>)
      two == SymDiffTheirs(one.p, one.p, IterKeys(one.p, order))
  IN Purge(two, one.purge \o SymDiffCleanup(two, IterKeys(two, order)))

InitSelf ==
  /\ patterns \in Operands
  /\ pre = patterns
  /\ err = "none"
  /\ op = "init"
  /\ absent = FALSE
  /\ res = <<>>
  /\ arg = EmptyDict
  /\ resolver = FALSE

\* an earlier s.remove(b)
RemoveFirst(b) ==
  /\ op = "init"
  /\ \E o \in Orders(DOMAIN b) :
       /\ patterns' = NSRemove(patterns, b, o).p
       /\ err' = NSRemove(patterns, b, o).err
       /\ pre' = NSRemove(patterns, b, o).p
  /\ op' = "remove"
  /\ UNCHANGED <<absent, res, arg, resolver>>

SelfOperand(opc) ==
  CASE opc = "update" -> NSUpdateSelf(patterns, AnyOrder(DOMAIN patterns))
    [] opc = "intersection_update" -> NSIntersectionUpdateSelf(patterns)
    [] opc = "difference_update" ->
         NSDifferenceUpdateSelf(patterns, FALSE, AnyOrder(DOMAIN patterns))
    [] opc = "symmetric_difference_update" ->
         NSSymmetricDifferenceUpdateSelf(patterns, AnyOrder(DOMAIN patterns))

\* s.update(s)
UpdateSelf ==
  /\ op \in {"init", "remove"}
  /\ patterns' = SelfOperand("update").p
  /\ err' = SelfOperand("update").err
  /\ pre' = patterns
  /\ op' = "update"
  /\ UNCHANGED <<absent, res, arg, resolver>>

\* s.intersection_update(s)
IntersectionUpdateSelf ==
  /\ op \in {"init", "remove"}
  /\ patterns' = SelfOperand("intersection_update").p
  /\ err' = SelfOperand("intersection_update").err
  /\ pre' = patterns
  /\ op' = "intersection_update"
  /\ UNCHANGED <<absent, res, arg, resolver>>

\* s.difference_update(s)
DifferenceUpdateSelf ==
  /\ op \in {"init", "remove"}
  /\ patterns' = SelfOperand("difference_update").p
  /\ err' = SelfOperand("difference_update").err
  /\ pre' = patterns
  /\ op' = "difference_update"
  /\ UNCHANGED <<absent, res, arg, resolver>>

\* s.symmetric_difference_update(s)
SymmetricDifferenceUpdateSelf ==
  /\ op \in {"init", "remove"}
  /\ patterns' = SelfOperand("symmetric_difference_update").p
  /\ err' = SelfOperand("symmetric_difference_update").err
  /\ pre' = patterns
  /\ op' = "symmetric_difference_update"
  /\ UNCHANGED <<absent, res, arg, resolver>>

NextSelf ==
  \/ \E b \in Operands : RemoveFirst(b)
  \/ UpdateSelf
  \/ IntersectionUpdateSelf
  \/ DifferenceUpdateSelf
  \/ SymmetricDifferenceUpdateSelf

SpecSelf == InitSelf /\ [][NextSelf]_vars

\* C20: s.update(s) and s.intersection_update(s) return with the members of
\* s those s had, s.difference_update(s) and
\* s.symmetric_difference_update(s) return with s holding no template
SelfOperandAsEqualSets ==
  /\ op \in {"update", "intersection_update"} =>
       err = "none" /\ Members(patterns) = Members(pre)
  /\ op \in {"difference_update", "symmetric_difference_update"} =>
       err = "none" /\ patterns = EmptyDict

(***************************************************************************)
(* NodeSet.regroup(groupsource, overlap=...), noprefix left False.         *)
(***************************************************************************)
\* NodeSet.fromlist(nodelist, resolver=NOGROUP_RESOLVER): every string is
\* parsed, then updaten
FromListParsed(parsed) ==
  IF \E i \in DOMAIN parsed : parsed[i].err # "none"
    THEN [p |-> EmptyDict,
          err |-> parsed[CHOOSE i \in DOMAIN parsed :
                           /\ parsed[i].err # "none"
                           /\ \A j \in 1..(i - 1) : parsed[j].err = "none"].err]
  ELSE NSUpdaten(EmptyDict, [i \in DOMAIN parsed |-> parsed[i].ns],
                 AnyOrder(UNION {DOMAIN parsed[i].ns : i \in DOMAIN parsed}))

FromList(nodelist) ==
  FromListParsed([i \in DOMAIN nodelist |-> Parse(nodelist[i], FALSE)])

\* allgrpns: the NodeSet of the group names, None when the list query failed
AllGrpNsOf(list) ==
  IF list.err # "none" THEN [none |-> TRUE, p |-> EmptyDict, err |-> "none"]
  ELSE [none |-> FALSE, p |-> FromList(list.groups).p,
        err |-> FromList(list.groups).err]

AllGrpNs(namespace) == AllGrpNsOf(GroupList(namespace))

\* "not allgrpns"
NoGroups(allgrpns) == allgrpns.none \/ NSLen(allgrpns.p) = 0

RECURSIVE AllGroupsLoop(_, _, _)

\* allgroups[grp] = NodeSet(",".join(nodelist))
AllGroupsParsed(grps, namespace, allgroups, ns) ==
  IF ns.err # "none" THEN [allgroups |-> allgroups, err |-> ns.err]
  ELSE AllGroupsLoop(Tail(grps), namespace, (Head(grps) :> ns.p) @@ allgroups)

AllGroupsNodes(grps, namespace, allgroups, nodelist) ==
  IF nodelist.err = "GroupSourceQueryFailed"
    THEN [allgroups |-> allgroups, err |-> "NodeSetExternalError"]
  ELSE IF nodelist.err # "none" THEN [allgroups |-> allgroups, err |-> nodelist.err]
  ELSE AllGroupsParsed(grps, namespace, allgroups,
                       NodeSetNew(Join(<<",">>, nodelist.nodes), TRUE))

\* internal reverse: allgroups is populated from the groups of allgrpns
AllGroupsLoop(grps, namespace, allgroups) ==
  IF grps = <<>> THEN [allgroups |-> allgroups, err |-> "none"]
  ELSE AllGroupsNodes(grps, namespace, allgroups,
                      GroupNodes(Head(grps), namespace))

\* _iterbase: a NodeSetBase of one node for each item of _iter
IterBaseOf(items) ==
  [i \in DOMAIN items |->
     IF items[i].idx # -1
       THEN NodeSetBase(items[i].pat, RangeSet({items[i].idx}, items[i].pad))
     ELSE NodeSetBase(items[i].pat, None)]

IterBase(p) == IterBaseOf(Iter(p))

\* _find_groups(node, namespace, allgroups)
FindGroups(node, namespace, allgroups) ==
  IF DOMAIN allgroups # {}
    THEN SelectSeq(SortedKeys(DOMAIN allgroups),
                   LAMBDA grp : NSIsSuperset(allgroups[grp], node))
  ELSE NodeGroups(NSStr(node), namespace)

\* parse_group(group, namespace)
ParseGroupNodes(nodestr) ==
  IF nodestr.err # "none" THEN [ns |-> EmptyDict, err |-> nodestr.err]
  ELSE Parse(Join(<<",">>, nodestr.nodes), TRUE)

ParseGroup(group, namespace) == ParseGroupNodes(GroupNodes(group, namespace))

RECURSIVE CountGroups(_, _, _)

CountParsed(grps, namespace, groups, nodes) ==
  IF nodes.err # "none" THEN [groups |-> groups, err |-> nodes.err]
  ELSE CountGroups(Tail(grps), namespace,
                   (Head(grps) :> [i |-> 1, nodes |-> nodes.ns]) @@ groups)

\* the groups of one node: groups[grp] = (i + 1, nodes)
CountGroups(grps, namespace, groups) ==
  IF grps = <<>> THEN [groups |-> groups, err |-> "none"]
  ELSE IF Head(grps) \in DOMAIN groups
    THEN CountGroups(Tail(grps), namespace,
                     [groups EXCEPT ![Head(grps)].i = @ + 1])
  ELSE CountParsed(grps, namespace, groups, ParseGroup(Head(grps), namespace))

RECURSIVE CountNodes(_, _, _, _)

CountNext(nodes, namespace, allgroups, r) ==
  IF r.err # "none" THEN r
  ELSE CountNodes(Tail(nodes), namespace, allgroups, r.groups)

\* the loop over the nodes of self
CountNodes(nodes, namespace, allgroups, groups) ==
  IF nodes = <<>> THEN [groups |-> groups, err |-> "none"]
  ELSE CountNext(nodes, namespace, allgroups,
                 CountGroups(FindGroups(Head(nodes), namespace, allgroups),
                             namespace, groups))

\* "assert i <= len(nodes)"
CountAssertFails(groups) ==
  \E grp \in DOMAIN groups : groups[grp].i > NSLen(groups[grp].nodes)

\* fulls: (i, k) for the groups with i == len(nodes)
Fulls(groups) ==
  {[num |-> groups[grp].i, grp |-> grp] :
     grp \in {g \in DOMAIN groups : groups[g].i = NSLen(groups[g].nodes)}}

\* (variant) of two groups of one size the greater name comes first
BigAlphaNameDown(x, y) ==
  x.num > y.num \/ (x.num = y.num /\ StrLess(y.grp, x.grp))

\* bigalpha: x sorts before y
BigAlpha(x, y) ==
  x.num > y.num \/ (x.num = y.num /\ StrLess(x.grp, y.grp))

\* sorted(fulls, cmp=bigalpha)
RECURSIVE SortedFulls(_)
SortedFulls(F) ==
  IF F = {} THEN <<>>
  ELSE LET m == CHOOSE x \in F : \A y \in F \ {x} : BigAlpha(x, y)
       IN <<m>> \o SortedFulls(F \ {m})

\* "@%s:%s" % (groupsource, grp), "@" + grp without a groupsource
GroupRef(namespace, grp) ==
  IF namespace # <<>> THEN <<"@">> \o namespace \o <<":">> \o grp
  ELSE <<"@">> \o grp

Regrouped(str, error, rest, emitted) ==
  [str |-> str, err |-> error, rest |-> rest, emitted |-> emitted]

RECURSIVE SelectLoop(_, _, _, _, _, _, _)

\* rest.difference_update(groups[grp][1]); "if not rest"
SelectRest(fulls, groups, namespace, overlap, regrouped, diff, emitted) ==
  IF diff.err # "none" THEN Regrouped(<<>>, diff.err, diff.p, emitted)
  ELSE IF NSLen(diff.p) = 0 THEN Regrouped(NSStr(regrouped), "none", diff.p, emitted)
  ELSE SelectLoop(Tail(fulls), groups, namespace, overlap, regrouped, diff.p,
                  emitted)

\* regrouped.update("@...")
SelectEmit(fulls, groups, namespace, overlap, upd, rest, emitted) ==
  IF upd.err # "none" THEN Regrouped(<<>>, upd.err, rest, emitted)
  ELSE SelectRest(fulls, groups, namespace, overlap, upd.p,
                  NSDifferenceUpdate(rest, groups[Head(fulls).grp].nodes, FALSE,
                    AnyOrder(DOMAIN groups[Head(fulls).grp].nodes)),
                  Append(emitted, Head(fulls).grp))

\* (variant) a group is selected whatever is left of it in rest
SkippedNever(overlap, nodes, rest) == FALSE

\* "if not overlap and groups[grp][1] not in rest: continue"
Skipped(overlap, nodes, rest) == ~overlap /\ ~NSIsSuperset(rest, nodes)

\* the selection loop and the string returned
SelectLoop(fulls, groups, namespace, overlap, regrouped, rest, emitted) ==
  IF fulls = <<>>
    THEN Regrouped(IF NSLen(regrouped) > 0
                     THEN NSStr(regrouped) \o <<",">> \o NSStr(rest)
                   ELSE NSStr(rest),
                   "none", rest, emitted)
  ELSE IF Skipped(overlap, groups[Head(fulls).grp].nodes, rest)
    THEN SelectLoop(Tail(fulls), groups, namespace, overlap, regrouped, rest,
                    emitted)
  ELSE SelectEmit(fulls, groups, namespace, overlap,
                  NodeSetOp("update", regrouped,
                            GroupRef(namespace, Head(fulls).grp), FALSE),
                  rest, emitted)

RegroupCounted(namespace, overlap, rest, counted) ==
  IF counted.err # "none" THEN Regrouped(<<>>, counted.err, rest, <<>>)
  ELSE IF CountAssertFails(counted.groups)
    THEN Regrouped(<<>>, "AssertionError", rest, <<>>)
  ELSE SelectLoop(SortedFulls(Fulls(counted.groups)), counted.groups, namespace,
                  overlap, EmptyDict, rest, <<>>)

RegroupMapped(p, namespace, overlap, rest, all) ==
  IF all.err # "none" THEN Regrouped(<<>>, all.err, rest, <<>>)
  ELSE RegroupCounted(namespace, overlap, rest,
                      CountNodes(IterBase(p), namespace, all.allgroups, EmptyDict))

RegroupListed(p, namespace, overlap, rest, allgrpns) ==
  IF allgrpns.err # "none" THEN Regrouped(<<>>, allgrpns.err, rest, <<>>)
  ELSE IF HasNodeGroups(namespace)
          /\ (NoGroups(allgrpns) \/ NSLen(allgrpns.p) >= NSLen(p))
    THEN RegroupCounted(namespace, overlap, rest,
                        CountNodes(IterBase(p), namespace, EmptyDict, EmptyDict))
  ELSE IF NoGroups(allgrpns) THEN Regrouped(NSStr(rest), "none", rest, <<>>)
  ELSE RegroupMapped(p, namespace, overlap, rest,
                     AllGroupsLoop(NSIter(allgrpns.p), namespace, EmptyDict))

\* rest = NodeSet(self, resolver=NOGROUP_RESOLVER)
RestOf(p) == NSUpdate(EmptyDict, p, AnyOrder(DOMAIN p)).p

Regroup(p, namespace, overlap) ==
  RegroupListed(p, namespace, overlap, RestOf(p), AllGrpNs(namespace))

(***************************************************************************)
(* A NodeSet of nodes a1.. and b, regroup called on it with one of the     *)
(* group sources, and the string it returned given to NodeSet().           *)
(* pre is the set before the call; res holds the string returned, the      *)
(* groups selected in the order of their selection, rest as the call left  *)
(* it, and the NodeSet made of the string.                                 *)
(***************************************************************************)
RegroupSets ==
  {Restrict(f) :
     f \in {g \in [{<<"a", "%", "s">>, <<"b">>} ->
                     {RangeSet(S, 0) : S \in (SUBSET (1..(MaxIdx + 1))) \ {{}}}
                     \cup {None, Absent}] :
              /\ g[<<"a", "%", "s">>] # None
              /\ g[<<"b">>] \in {None, Absent}}}

InitRegroup ==
  /\ patterns \in {Named(s, 0) : s \in RegroupSets}
  /\ arg \in [groupsource : GroupSources \cup {<<>>}, overlap : BOOLEAN]
  /\ pre = patterns
  /\ res = [str |-> <<>>, emitted |-> <<>>, rest |-> EmptyDict,
            expanded |-> [p |-> EmptyDict, err |-> "none"]]
  /\ err = "none"
  /\ op = "init"
  /\ absent = FALSE
  /\ resolver = TRUE

\* s.regroup(groupsource, overlap=overlap)
RegroupCall ==
  /\ op = "init"
  /\ res' = [res EXCEPT
               !.str = Regroup(patterns, arg.groupsource, arg.overlap).str,
               !.emitted = Regroup(patterns, arg.groupsource, arg.overlap).emitted,
               !.rest = Regroup(patterns, arg.groupsource, arg.overlap).rest]
  /\ err' = Regroup(patterns, arg.groupsource, arg.overlap).err
  /\ patterns' = SeenAfter(patterns, RestOf(patterns),
                   Regroup(patterns, arg.groupsource, arg.overlap).rest, TRUE)
  /\ pre' = patterns
  /\ op' = "regroup"
  /\ UNCHANGED <<arg, absent, resolver>>

\* NodeSet(the string returned)
ExpandCall ==
  /\ op = "regroup"
  /\ err = "none"
  /\ res.str # <<>>
  /\ res' = [res EXCEPT !.expanded = NodeSetNew(res.str, resolver)]
  /\ op' = "expand"
  /\ UNCHANGED <<patterns, err, arg, pre, absent, resolver>>

NextRegroup ==
  \/ RegroupCall
  \/ ExpandCall

SpecRegroup == InitRegroup /\ [][NextRegroup]_vars

ConsistentSources == (GroupSources \cup {<<>>}) \ {<<"y">>}

\* C14: with a group source whose answers are consistent, regroup returns a
\* string, the empty one for the empty set only, and the NodeSet made of
\* the string has the members the set had
RegroupSound ==
  /\ op = "regroup" /\ arg.groupsource \in ConsistentSources =>
       /\ err = "none"
       /\ res.str = <<>> => Members(pre) = {}
  /\ op = "expand" /\ arg.groupsource \in ConsistentSources =>
       /\ res.expanded.err = "none"
       /\ Members(res.expanded.p) = Members(pre)

\* C15: whatever regroup returned or raised, the set holds the RangeSets
\* and the nodes it held before the call
RegroupLeavesSet ==
  op = "regroup" => patterns = pre /\ Members(patterns) = Members(pre)

\* regroup has selected a group and returned it with the rest left, taken
\* out of the working copy
RegroupLeavesSetWitness ==
  /\ op = "regroup"
  /\ err = "none"
  /\ res.emitted # <<>>
  /\ res.rest # EmptyDict
  /\ Members(res.rest) # Members(pre)
  /\ <<"a", "%", "s">> \in DOMAIN res.rest

\* the names of the nodes of a NodeSet
NodeNames(p) == {NSIter(p)[i] : i \in 1..Len(NSIter(p))}

\* the nodes the group source gives for a group
GroupSet(g) ==
  {SourceGroups(arg.groupsource)[g][i] :
     i \in DOMAIN SourceGroups(arg.groupsource)[g]}

\* the order of the candidates: the larger group first, then the lesser name
Before(g, h) ==
  \/ Cardinality(GroupSet(g)) > Cardinality(GroupSet(h))
  \/ Cardinality(GroupSet(g)) = Cardinality(GroupSet(h)) /\ StrLess(g, h)

FullGroups ==
  {g \in DOMAIN SourceGroups(arg.groupsource) :
     GroupSet(g) # {} /\ GroupSet(g) \subseteq NodeNames(pre)}

Emitted == {res.emitted[i] : i \in DOMAIN res.emitted}

\* C17: without overlap, the groups selected are full groups, selected in
\* the order of decreasing size then ascending name, a full group being
\* selected exactly when no group selected before it has one of its nodes;
\* they are pairwise disjoint and rest is the set without their nodes
RegroupGreedy ==
  op = "regroup" /\ ~arg.overlap /\ err = "none"
  /\ arg.groupsource \in GroupSources =>
    /\ Emitted \subseteq FullGroups
    /\ \A i, j \in DOMAIN res.emitted :
         i < j => /\ Before(res.emitted[i], res.emitted[j])
                  /\ GroupSet(res.emitted[i]) \cap GroupSet(res.emitted[j]) = {}
    /\ \A g \in FullGroups :
         g \in Emitted <=>
           \A h \in Emitted : Before(h, g) => GroupSet(h) \cap GroupSet(g) = {}
    /\ NodeNames(res.rest) =
         NodeNames(pre) \ UNION {GroupSet(g) : g \in Emitted}

\* two full groups of one size have a node in common: the one with the
\* lesser name is selected, the other is not
RegroupGreedyWitness ==
  /\ op = "regroup"
  /\ ~arg.overlap
  /\ err = "none"
  /\ arg.groupsource = <<"v">>
  /\ {<<"r", "1">>, <<"r", "2">>} \subseteq FullGroups
  /\ <<"r", "1">> \in Emitted
  /\ <<"r", "2">> \notin Emitted
  /\ res.rest # EmptyDict

(***************************************************************************)
(* Strict removals on a NodeSet; pre is the set before the last call.      *)
(***************************************************************************)
InitStrict ==
  /\ patterns \in Operands
  /\ pre = patterns
  /\ err = "none"
  /\ op = "init"
  /\ absent = FALSE
  /\ res = <<>>
  /\ arg = EmptyDict
  /\ resolver = FALSE

\* s.remove(b)
RemoveCall(b) ==
  \E o \in Orders(DOMAIN b) :
    /\ patterns' = NSRemove(patterns, b, o).p
    /\ err' = NSRemove(patterns, b, o).err
    /\ pre' = patterns
    /\ arg' = b
    /\ op' = "remove"
    /\ absent' = Missing(b)
    /\ UNCHANGED <<res, resolver>>

\* s.difference_update(b, strict=True)
DifferenceStrictCall(b) ==
  \E o \in Orders(DOMAIN b) :
    /\ patterns' = NSDifferenceUpdate(patterns, b, TRUE, o).p
    /\ err' = NSDifferenceUpdate(patterns, b, TRUE, o).err
    /\ pre' = patterns
    /\ arg' = b
    /\ op' = "difference_update_strict"
    /\ absent' = Missing(b)
    /\ UNCHANGED <<res, resolver>>

NextStrict ==
  \/ \E b \in Operands : RemoveCall(b)
  \/ \E b \in Operands : DifferenceStrictCall(b)

SpecStrict == InitStrict /\ [][NextStrict]_vars

\* C21: when remove or the strict difference_update raises KeyError, the
\* set has the members, the length and the folded string it had before
FailedRemovalAtomic ==
  op \in {"remove", "difference_update_strict"} /\ err = "KeyError" =>
    /\ Members(patterns) = Members(pre)
    /\ NSLen(patterns) = NSLen(pre)
    /\ NSStr(patterns) = NSStr(pre)

(***************************************************************************)
(* The node names of a NodeSet built from bracketed terms and single-node  *)
(* terms united with ",", some with two fields of digits.                  *)
(***************************************************************************)
\* a[1-2], a1b[2], a1b2, a1, b
NameTerms ==
  {BracketOf(<<"a">>, <<"1", "-", "2">>, <<>>),
   BracketOf(<<"a", "1", "b">>, <<"2">>, <<>>),
   NodeOf(<<"a", "1", "b", "2">>),
   NodeOf(<<"a", "1">>),
   NodeOf(<<"b">>)}

NameInputs ==
  UNION {{[terms |-> ts, ops |-> [i \in 1..(n - 1) |-> ","]] :
            ts \in [1..n -> NameTerms]} : n \in 1..MaxTerms}

InitNames ==
  /\ arg \in NameInputs
  /\ pre = EmptyDict
  /\ patterns = EmptyDict
  /\ err = "none"
  /\ op = "init"
  /\ absent = FALSE
  /\ res = <<>>
  /\ resolver = FALSE

\* list(a) and len(a)
NamesCall ==
  /\ op = "NodeSet"
  /\ err = "none"
  /\ res' = [names |-> NSIter(patterns), len |-> NSLen(patterns)]
  /\ op' = "names"
  /\ UNCHANGED <<patterns, err, absent, arg, pre, resolver>>

NextNames == NodeSetCall \/ NamesCall

SpecNames == InitNames /\ [][NextNames]_vars

\* C22: the iteration of a NodeSet yields no node name twice, and len is
\* the number of the names it yields
NoDuplicateName ==
  op = "names" =>
    /\ \A i, j \in DOMAIN res.names : i # j => res.names[i] # res.names[j]
    /\ res.len = Cardinality({res.names[i] : i \in DOMAIN res.names})

====
